---------------------------- MODULE Spec2Model ----------------------------
(***************************************************************************)
(* A model of PaperScout's arXiv retrieval and ranking pipeline            *)
(* (paperscout/services/init_steps/step_fetch_arxiv_papers.py).            *)
(*                                                                         *)
(* Text is a sequence of one-character strings, so that stripping, case    *)
(* folding, substring search and tokenising are computed, not assumed.     *)
(* A paper is a record with the fields the pipeline reads: id, url, title, *)
(* summary (and semantic_score once a ranker has annotated it).            *)
(***************************************************************************)
EXTENDS Integers, Sequences, FiniteSets, TLC

(***************************************************************************)
(* Text helpers (Python str methods used by the step).                     *)
(***************************************************************************)
\* str.lower() on one character (the letters the model uses in upper case)
LowerChar(c) ==
  CASE c = "A" -> "a" [] c = "B" -> "b" [] c = "G" -> "g" [] c = "I" -> "i"
    [] c = "P" -> "p" [] c = "T" -> "t" [] c = "X" -> "x" [] OTHER -> c

\* str.lower()
Lower(s) == [i \in 1..Len(s) |-> LowerChar(s[i])]

\* characters str.strip() removes
IsSpace(c) == c \in {" ", "\t", "\n"}

RECURSIVE LStrip(_)
LStrip(s) == IF s = <<>> THEN <<>>
             ELSE IF IsSpace(Head(s)) THEN LStrip(Tail(s)) ELSE s

RECURSIVE RStrip(_)
RStrip(s) == IF s = <<>> THEN <<>>
             ELSE IF IsSpace(s[Len(s)]) THEN RStrip(SubSeq(s, 1, Len(s) - 1)) ELSE s

\* str.strip()
Strip(s) == RStrip(LStrip(s))

\* Python's `k in text` for strings: k occurs as a contiguous substring
Contains(text, k) ==
  \E i \in 0..(Len(text) - Len(k)) : SubSeq(text, i + 1, i + Len(k)) = k

\* Python's `a or b` on strings: the first operand when it is non-empty
StrOr(a, b) == IF a # <<>> THEN a ELSE b

\* " ".join(parts)
RECURSIVE JoinSpace(_)
JoinSpace(parts) ==
  IF parts = <<>> THEN <<>>
  ELSE IF Len(parts) = 1 THEN parts[1]
  ELSE parts[1] \o <<" ">> \o JoinSpace(Tail(parts))

\* a list built element by element, as an explicit tuple
AsList(f) == f \o <<>>

\* s[:n] on a list
Take(s, n) == SubSeq(s, 1, IF n < Len(s) THEN n ELSE Len(s))

\* `for x in list[lo..hi]: st = Body(st, x)`, left to right; a loop state is a
\* record whose field done says that the loop has executed `break`.  The
\* range is halved so that long lists need no deep recursion.
RECURSIVE ForEach(_, _, _, _, _)
ForEach(Body(_, _), list, lo, hi, st) ==
  IF lo > hi THEN st
  ELSE IF lo = hi THEN (IF st.done THEN st ELSE Body(st, list[lo]))
  ELSE LET mid == (lo + hi) \div 2
           left == ForEach(Body, list, lo, mid, st)
       IN IF left.done THEN left ELSE ForEach(Body, list, mid + 1, hi, left)

Max2(a, b) == IF a >= b THEN a ELSE b
Min2(a, b) == IF a <= b THEN a ELSE b

(***************************************************************************)
(* Papers and identity keys.                                               *)
(***************************************************************************)
\* an entry of a JSON list that is not a mapping (possible only in a cache
\* file the step did not write itself)
NonDict == [nondict |-> TRUE]

\* isinstance(p, dict)
IsDict(p) == "nondict" \notin DOMAIN p

\* str(p.get("id") or p.get("url") or p.get("title") or "").strip()
IdentityKey(p) == Strip(StrOr(p.id, StrOr(p.url, StrOr(p.title, <<>>))))

\* _merge_unique_papers over the concatenation of its groups: a paper is
\* skipped when its key is empty or was seen, else kept and remembered
MergeBody(st, p) ==
  LET pid == IdentityKey(p)
  IN IF pid = <<>> \/ pid \in st.seen
     THEN st
     ELSE [seen |-> st.seen \cup {pid}, out |-> Append(st.out, p), done |-> FALSE]

merge_unique_papers(g1, g2) ==
  ForEach(MergeBody, g1 \o g2, 1, Len(g1) + Len(g2),
          [seen |-> {}, out |-> <<>>, done |-> FALSE]).out

(***************************************************************************)
(* _tokenize_for_overlap: re.findall of                                    *)
(*   [a-z0-9][a-z0-9_\-]{1,}|[U+4E00-U+9FFF]{1,}                           *)
(* over the lower-cased text.  A CJK character is one element of the text, *)
(* written as the name of its code point.                                  *)
(***************************************************************************)
AlnumChars ==
  {"a", "b", "c", "d", "e", "f", "g", "h", "i", "j", "k", "l", "m", "n", "o",
   "p", "q", "r", "s", "t", "u", "v", "w", "x", "y", "z",
   "0", "1", "2", "3", "4", "5", "6", "7", "8", "9"}

\* [a-z0-9]
IsAlnum(c) == c \in AlnumChars

\* [a-z0-9_\-]
IsWordChar(c) == c \in AlnumChars \cup {"_", "-"}

\* [U+4E00-U+9FFF]
IsCJK(c) == c \in {"u4e2d", "u6587", "u5b57", "u8bba"}

\* the last index of the greedy run of characters of class `cls` that
\* starts at index i (cls: "word" or "cjk"); i - 1 when s[i] is not in it
RECURSIVE RunEnd(_, _, _)
RunEnd(s, i, cls) ==
  IF i > Len(s) THEN i - 1
  ELSE IF (cls = "word" /\ IsWordChar(s[i])) \/ (cls = "cjk" /\ IsCJK(s[i]))
       THEN RunEnd(s, i + 1, cls)
       ELSE i - 1

\* part[i : i + 2] for i in range(len(part) - 1)
Bigrams(part) == [i \in 1..(Len(part) - 1) |-> SubSeq(part, i, i + 1)]

RECURSIVE TokenScan(_, _)
TokenScan(s, i) ==
  IF i > Len(s) THEN <<>>
  ELSE IF IsAlnum(s[i]) /\ i < Len(s) /\ IsWordChar(s[i + 1])
       THEN LET j == RunEnd(s, i + 1, "word")
            IN <<SubSeq(s, i, j)>> \o TokenScan(s, j + 1)
       ELSE IF IsCJK(s[i])
            THEN LET j == RunEnd(s, i, "cjk")
                     part == SubSeq(s, i, j)
                 IN (IF Len(part) <= 2 THEN <<part>> ELSE Bigrams(part))
                    \o TokenScan(s, j + 1)
            ELSE TokenScan(s, i + 1)

tokenize_for_overlap(text) == TokenScan(AsList(Lower(text)), 1)

(***************************************************************************)
(* _rank_keyword_overlap (BM25, k1 = 1.2, b = 0.75, title bonus 0.6).      *)
(* Scores are fixed-point numbers in units of 10^-6, the precision the     *)
(* code rounds to (round(score, 6)).                                       *)
(***************************************************************************)
\* round(10^6 * ln k) for k = 1..256
LnMicro ==
  <<
    0, 693147, 1098612, 1386294, 1609438, 1791759, 1945910, 2079442,
    2197225, 2302585, 2397895, 2484907, 2564949, 2639057, 2708050, 2772589,
    2833213, 2890372, 2944439, 2995732, 3044522, 3091042, 3135494, 3178054,
    3218876, 3258097, 3295837, 3332205, 3367296, 3401197, 3433987, 3465736,
    3496508, 3526361, 3555348, 3583519, 3610918, 3637586, 3663562, 3688879,
    3713572, 3737670, 3761200, 3784190, 3806662, 3828641, 3850148, 3871201,
    3891820, 3912023, 3931826, 3951244, 3970292, 3988984, 4007333, 4025352,
    4043051, 4060443, 4077537, 4094345, 4110874, 4127134, 4143135, 4158883,
    4174387, 4189655, 4204693, 4219508, 4234107, 4248495, 4262680, 4276666,
    4290459, 4304065, 4317488, 4330733, 4343805, 4356709, 4369448, 4382027,
    4394449, 4406719, 4418841, 4430817, 4442651, 4454347, 4465908, 4477337,
    4488636, 4499810, 4510860, 4521789, 4532599, 4543295, 4553877, 4564348,
    4574711, 4584967, 4595120, 4605170, 4615121, 4624973, 4634729, 4644391,
    4653960, 4663439, 4672829, 4682131, 4691348, 4700480, 4709530, 4718499,
    4727388, 4736198, 4744932, 4753590, 4762174, 4770685, 4779123, 4787492,
    4795791, 4804021, 4812184, 4820282, 4828314, 4836282, 4844187, 4852030,
    4859812, 4867534, 4875197, 4882802, 4890349, 4897840, 4905275, 4912655,
    4919981, 4927254, 4934474, 4941642, 4948760, 4955827, 4962845, 4969813,
    4976734, 4983607, 4990433, 4997212, 5003946, 5010635, 5017280, 5023881,
    5030438, 5036953, 5043425, 5049856, 5056246, 5062595, 5068904, 5075174,
    5081404, 5087596, 5093750, 5099866, 5105945, 5111988, 5117994, 5123964,
    5129899, 5135798, 5141664, 5147494, 5153292, 5159055, 5164786, 5170484,
    5176150, 5181784, 5187386, 5192957, 5198497, 5204007, 5209486, 5214936,
    5220356, 5225747, 5231109, 5236442, 5241747, 5247024, 5252273, 5257495,
    5262690, 5267858, 5273000, 5278115, 5283204, 5288267, 5293305, 5298317,
    5303305, 5308268, 5313206, 5318120, 5323010, 5327876, 5332719, 5337538,
    5342334, 5347108, 5351858, 5356586, 5361292, 5365976, 5370638, 5375278,
    5379897, 5384495, 5389072, 5393628, 5398163, 5402677, 5407172, 5411646,
    5416100, 5420535, 5424950, 5429346, 5433722, 5438079, 5442418, 5446737,
    5451038, 5455321, 5459586, 5463832, 5468060, 5472271, 5476464, 5480639,
    5484797, 5488938, 5493061, 5497168, 5501258, 5505332, 5509388, 5513429,
    5517453, 5521461, 5525453, 5529429, 5533389, 5537334, 5541264, 5545177
  >>

\* floor(a * b / c) without leaving 32 bits
MulDiv(a, b, c) == (a \div c) * b + ((a % c) * b) \div c

\* tf.get(term, 0): occurrences of term in the token list
Freq(tokens, term) == Cardinality({i \in 1..Len(tokens) : tokens[i] = term})

\* set(tokens)
TokenSet(tokens) == {tokens[i] : i \in 1..Len(tokens)}

\* the idf of the textbook formula, log((n_docs - dft + 0.5) / (dft + 0.5)),
\* which is negative for a term most documents hold; the score sign
\* properties must tell it from Idf
IdfWithoutOne(n_docs, dft) == LnMicro[2 * n_docs - 2 * dft + 1] - LnMicro[2 * dft + 1]

\* idf(term) = math.log(1.0 + (n_docs - dft + 0.5) / (dft + 0.5))
\*           = ln(2 n_docs + 2) - ln(2 dft + 1)
Idf(n_docs, dft) == LnMicro[2 * n_docs + 2] - LnMicro[2 * dft + 1]

\* idf(term) * ((freq * (k1 + 1.0)) / (freq + k1 * (1.0 - b + b * dl / avg_dl)))
\* with avg_dl = total / n_docs; numerator and denominator scaled by 10 * total
TermScore(n_docs, dft, freq, dl, total) ==
  MulDiv(Idf(n_docs, dft), 22 * freq * total,
         10 * freq * total + 3 * total + 9 * dl * n_docs)

\* df[term] for each query term, in the order of query_terms: the number of
\* documents whose tokens hold the term
DocFreq(query_terms, doc_terms) ==
  AsList([k \in 1..Len(query_terms) |->
            Cardinality({d \in 1..Len(doc_terms) :
                           \E i \in 1..Len(doc_terms[d]) : doc_terms[d][i] = query_terms[k]})])

\* `for term in query_terms: ... score += idf(term) * ...` from the k-th term on
RECURSIVE Bm25Sum(_, _, _, _, _, _)
Bm25Sum(k, query_terms, terms, df, n_docs, total) ==
  IF k > Len(query_terms) THEN 0
  ELSE LET freq == Freq(terms, query_terms[k])
           rest == Bm25Sum(k + 1, query_terms, terms, df, n_docs, total)
       IN IF freq <= 0 THEN rest
          ELSE TermScore(n_docs, df[k], freq, Len(terms), total) + rest

\* 0.6 * title_hit_ratio
TitleBonus(query_terms, t_terms) ==
  IF t_terms = <<>> THEN 0
  ELSE (600000 * Cardinality(TokenSet(query_terms) \cap TokenSet(t_terms)))
         \div Max2(1, Cardinality(TokenSet(query_terms)))

\* the score of one paper
Bm25Score(query_terms, terms, t_terms, df, n_docs, total) ==
  IF terms = <<>> THEN 0
  ELSE Bm25Sum(1, query_terms, terms, df, n_docs, total)
         + TitleBonus(query_terms, t_terms)

\* item = dict(p); item["semantic_score"] = score
WithScore(p, score) == ("semantic_score" :> score) @@ p

\* a sort that is not stable: the items of one score come out in reverse
\* input order; the tie order properties must tell it from SortBuckets
RECURSIVE SortBucketsTiesReversed(_, _)
SortBucketsTiesReversed(scored, scores) ==
  IF scores = {} THEN <<>>
  ELSE LET top == CHOOSE v \in scores : \A w \in scores : w <= v
           IsTop(p) == p.semantic_score = top
           ties == SelectSeq(scored, IsTop)
       IN [i \in 1..Len(ties) |-> ties[Len(ties) + 1 - i]]
            \o SortBucketsTiesReversed(scored, scores \ {top})

\* list.sort(key = semantic_score, reverse = True): stable, ties keep the
\* input order: the items with the highest score in their input order, then
\* the rest sorted the same way
RECURSIVE SortBuckets(_, _)
SortBuckets(scored, scores) ==
  IF scores = {} THEN <<>>
  ELSE LET top == CHOOSE v \in scores : \A w \in scores : w <= v
           IsTop(p) == p.semantic_score = top
       IN SelectSeq(scored, IsTop) \o SortBuckets(scored, scores \ {top})

\* a sort that keeps one item of each score; the permutation properties
\* must tell it from SortByScoreDesc
SortByScoreDescOnePerScore(scored) ==
  LET first == SelectSeq([i \in 1..Len(scored) |-> i],
                 LAMBDA i : \A j \in 1..(i - 1) :
                              scored[j].semantic_score # scored[i].semantic_score)
  IN SortBuckets([n \in 1..Len(first) |-> scored[first[n]]],
                 {scored[i].semantic_score : i \in 1..Len(scored)})

SortByScoreDesc(scored) ==
  SortBuckets(scored, {scored[i].semantic_score : i \in 1..Len(scored)})

SumLenBody(st, tokens) == [sum |-> st.sum + Len(tokens), done |-> FALSE]

\* sum(len(t) for t in doc_terms)
SumLen(lists) == ForEach(SumLenBody, lists, 1, Len(lists), [sum |-> 0, done |-> FALSE]).sum

rank_keyword_overlap(papers, query_text) ==
  LET query_terms == tokenize_for_overlap(query_text)
      title_terms == AsList([i \in 1..Len(papers) |->
                               tokenize_for_overlap(papers[i].title)])
      doc_terms == AsList([i \in 1..Len(papers) |->
                      tokenize_for_overlap(papers[i].title \o <<" ">> \o papers[i].summary)])
      n_docs == Len(doc_terms)
      total == SumLen(doc_terms)
      df == DocFreq(query_terms, doc_terms)
      scored == AsList([i \in 1..Len(papers) |->
                   WithScore(papers[i],
                             Bm25Score(query_terms, doc_terms[i], title_terms[i],
                                       df, n_docs, total))])
  IN IF query_terms = <<>> THEN papers
     ELSE IF doc_terms = <<>> THEN papers
     ELSE SortByScoreDesc(scored)

(***************************************************************************)
(* _keyword_filter.                                                        *)
(***************************************************************************)
\* kws = [k.lower().strip() for k in keywords if str(k).strip()]
RECURSIVE CleanKeywords(_)
CleanKeywords(keywords) ==
  IF keywords = <<>> THEN <<>>
  ELSE (IF Strip(Head(keywords)) # <<>> THEN <<Strip(Lower(Head(keywords)))>> ELSE <<>>)
       \o CleanKeywords(Tail(keywords))

\* a filter that compares without lowering the text; the filter properties
\* must tell it from MatchesKeyword
MatchesKeywordExactCase(p, kws) ==
  \E i \in 1..Len(kws) : Contains(p.title \o <<" ">> \o p.summary, kws[i])

\* f"{title} {summary}".lower() contains some keyword
MatchesKeyword(p, kws) ==
  \E i \in 1..Len(kws) : Contains(Lower(p.title \o <<" ">> \o p.summary), kws[i])

\* out = [p for p in papers if any(k in text for k in kws)]
FilterLoop(papers, kws) ==
  LET Keep(p) == MatchesKeyword(p, kws)
  IN SelectSeq(papers, Keep)

keyword_filter(papers, keywords) ==
  LET kws == CleanKeywords(keywords)
  IN IF kws = <<>> THEN papers ELSE FilterLoop(papers, kws)

(***************************************************************************)
(* _rank_semantic.  The embedding library is an external collaborator: the *)
(* outcome of its import, load and encode calls, and the similarities it   *)
(* yields, are inputs.                                                     *)
(***************************************************************************)
DefaultModel == "BAAI/bge-large-en-v1.5"

\* the allow-list of embedding models (paperscout.config.settings)
SENTENCE_TRANSFORMER_MODEL_OPTIONS ==
  {DefaultModel, "allowed-model-2", "allowed-model-3"}

ST_MODEL_CACHE_MAX_SIZE == 2

\* what the embedding library does in one call of _rank_semantic
StOutcomes == {"import_error", "load_error", "encode_error", "ok"}

\* the similarity geometries the model explores: cosine similarity of the
\* query with the i-th of n documents, in units of 10^-6
ScoreFns == {"cyclic", "flat"}

Similarity(fn, i, n) == IF fn = "cyclic" THEN ((i % 4) * 250000) - 500000 ELSE 250000

\* how the call of _rank_semantic goes in the pipeline runs explored
SemanticRuns ==
  {[outcome |-> "import_error", fn |-> "flat"],
   [outcome |-> "encode_error", fn |-> "flat"],
   [outcome |-> "ok", fn |-> "cyclic"]}

\* selected_model: the configured name, or the default when it is empty or
\* not in the allow-list
SelectedModel(model_name) ==
  IF model_name \in SENTENCE_TRANSFORMER_MODEL_OPTIONS THEN model_name ELSE DefaultModel

\* a cache that evicts the entry inserted last; the eviction order property
\* must tell it from CacheAfterLookup
CacheAfterLookupEvictingNewest(cache, selected, outcome) ==
  IF \E i \in 1..Len(cache) : cache[i] = selected THEN cache
  ELSE LET evicted == IF Len(cache) >= ST_MODEL_CACHE_MAX_SIZE
                      THEN SubSeq(cache, 1, Len(cache) - 1) ELSE cache
       IN IF outcome = "load_error" THEN evicted ELSE Append(evicted, selected)

\* a cache that makes room only once the model is loaded; the property of
\* a failed load into a full cache must tell it from CacheAfterLookup
CacheAfterLookupLoadingFirst(cache, selected, outcome) ==
  IF \E i \in 1..Len(cache) : cache[i] = selected THEN cache
  ELSE IF outcome = "load_error" THEN cache
  ELSE Append(IF Len(cache) >= ST_MODEL_CACHE_MAX_SIZE THEN Tail(cache) ELSE cache,
              selected)

\* the cache after the lookup / eviction / load / insert of lines 379-386;
\* the cache is the sequence of its keys in insertion order
CacheAfterLookup(cache, selected, outcome) ==
  IF \E i \in 1..Len(cache) : cache[i] = selected THEN cache
  ELSE LET evicted == IF Len(cache) >= ST_MODEL_CACHE_MAX_SIZE THEN Tail(cache) ELSE cache
       IN IF outcome = "load_error" THEN evicted ELSE Append(evicted, selected)

\* whether the try block of lines 375-391 completes
EmbeddingSucceeds(cache, selected, outcome) ==
  /\ outcome # "import_error"
  /\ outcome # "encode_error"
  /\ (outcome = "load_error" => \E i \in 1..Len(cache) : cache[i] = selected)

\* a _rank_semantic that hands the pool back as it came when the embedding
\* path fails; the fallback property must tell it from rank_semantic
rank_semantic_unranked_fallback(papers, query_text, model_name, cache, outcome, fn) ==
  LET selected == SelectedModel(model_name)
      n == Len(papers)
      scored == AsList([i \in 1..n |-> WithScore(papers[i], Similarity(fn, i, n))])
  IN IF papers = <<>> \/ Strip(query_text) = <<>> \/ outcome = "import_error"
     THEN [ranked |-> papers, backend |-> "bm25", model |-> "", cache |-> cache]
     ELSE IF ~EmbeddingSucceeds(cache, selected, outcome)
     THEN [ranked |-> papers, backend |-> "bm25", model |-> "",
           cache |-> CacheAfterLookup(cache, selected, outcome)]
     ELSE [ranked |-> SortByScoreDesc(scored),
           backend |-> "sentence-transformers", model |-> selected,
           cache |-> CacheAfterLookup(cache, selected, outcome)]

\* a _rank_semantic that announces the embedding backend as soon as the
\* library is imported; the backend property must tell it from rank_semantic
rank_semantic_announcing_early(papers, query_text, model_name, cache, outcome, fn) ==
  LET clean_query == Strip(query_text)
      selected == SelectedModel(model_name)
      n == Len(papers)
      scored == AsList([i \in 1..n |-> WithScore(papers[i], Similarity(fn, i, n))])
  IN IF papers = <<>>
     THEN [ranked |-> <<>>, backend |-> "bm25", model |-> "", cache |-> cache]
     ELSE IF clean_query = <<>>
     THEN [ranked |-> papers, backend |-> "bm25", model |-> "", cache |-> cache]
     ELSE IF outcome = "import_error"
     THEN [ranked |-> rank_keyword_overlap(papers, clean_query),
           backend |-> "bm25", model |-> "", cache |-> cache]
     ELSE IF ~EmbeddingSucceeds(cache, selected, outcome)
     THEN [ranked |-> rank_keyword_overlap(papers, clean_query),
           backend |-> "sentence-transformers", model |-> selected,
           cache |-> CacheAfterLookup(cache, selected, outcome)]
     ELSE [ranked |-> SortByScoreDesc(scored),
           backend |-> "sentence-transformers", model |-> selected,
           cache |-> CacheAfterLookup(cache, selected, outcome)]

\* [ranked, backend, model, cache]: the returned list, _last_rank_backend,
\* _last_semantic_model and the model cache after the call; backend and
\* model start as __init__ leaves them
rank_semantic(papers, query_text, model_name, cache, outcome, fn) ==
  LET clean_query == Strip(query_text)
      selected == SelectedModel(model_name)
      n == Len(papers)
      scored == AsList([i \in 1..n |-> WithScore(papers[i], Similarity(fn, i, n))])
  IN IF papers = <<>>
     THEN [ranked |-> <<>>, backend |-> "bm25", model |-> "", cache |-> cache]
     ELSE IF clean_query = <<>>
     THEN [ranked |-> papers, backend |-> "bm25", model |-> "", cache |-> cache]
     ELSE IF outcome = "import_error"
     THEN [ranked |-> rank_keyword_overlap(papers, clean_query),
           backend |-> "bm25", model |-> "", cache |-> cache]
     ELSE IF ~EmbeddingSucceeds(cache, selected, outcome)
     THEN [ranked |-> rank_keyword_overlap(papers, clean_query),
           backend |-> "bm25", model |-> "",
           cache |-> CacheAfterLookup(cache, selected, outcome)]
     ELSE [ranked |-> SortByScoreDesc(scored),
           backend |-> "sentence-transformers", model |-> selected,
           cache |-> CacheAfterLookup(cache, selected, outcome)]

(***************************************************************************)
(* The selection merger of StepFetchArxivPapers.run (lines 96-114).        *)
(***************************************************************************)
\* a loop body that does not look at seen_ids; the no-duplicate property must
\* tell it from SelectBody
SelectBodyIgnoringSeen(st, p) ==
  LET sel2 == IF IdentityKey(p) # <<>> THEN Append(st.selected, p) ELSE st.selected
  IN [selected |-> sel2, seen_ids |-> st.seen_ids, cap |-> st.cap,
      done |-> Len(sel2) >= st.cap]

\* one `for p in ...` loop: append p when its key is non-empty and unseen,
\* then break as soon as the selection holds cap papers
SelectBody(st, p) ==
  LET pid == IdentityKey(p)
      take == pid # <<>> /\ pid \notin st.seen_ids
      sel2 == IF take THEN Append(st.selected, p) ELSE st.selected
  IN [selected |-> sel2,
      seen_ids |-> IF take THEN st.seen_ids \cup {pid} ELSE st.seen_ids,
      cap |-> st.cap,
      done |-> Len(sel2) >= st.cap]

\* a loop without the `break`; the length property must tell it from SelectLoop
SelectLoopWithoutBreak(list, selected, seen_ids, cap) ==
  ForEach(SelectBody, list, 1, Len(list),
          [selected |-> selected, seen_ids |-> seen_ids, cap |-> Len(list) + Len(selected) + 1,
           done |-> FALSE])

SelectLoop(list, selected, seen_ids, cap) ==
  ForEach(SelectBody, list, 1, Len(list),
          [selected |-> selected, seen_ids |-> seen_ids, cap |-> cap, done |-> FALSE])

\* a merger that never backfills from the coarse ranking; the selection
\* property must tell it from MergeSelection
MergeSelectionWithoutBackfill(fine_ranked, coarse_ranked, cap) ==
  SelectLoop(fine_ranked, <<>>, {}, cap).selected

MergeSelection(fine_ranked, coarse_ranked, cap) ==
  LET first == SelectLoop(fine_ranked, <<>>, {}, cap)
  IN IF Len(first.selected) < cap
     THEN SelectLoop(coarse_ranked, first.selected, first.seen_ids, cap).selected
     ELSE first.selected

(***************************************************************************)
(* The local fetch cache.  The file is missing, unreadable as JSON         *)
(* ("garbage"), JSON that is not a mapping ("nonmapping"), or a JSON       *)
(* object; saved_at = 0 stands for a missing or zero saved_at.             *)
(***************************************************************************)
CACHE_CAP == 80

MAX_AGE_HOURS == 24

NoFile == [kind |-> "missing", saved_at |-> 0, papers |-> <<>>]
GarbageFile == [kind |-> "garbage", saved_at |-> 0, papers |-> <<>>]
NonMappingFile == [kind |-> "nonmapping", saved_at |-> 0, papers |-> <<>>]

\* how a write can end: done; refused before the file is opened (makedirs or
\* open raises); broken off after open(path, "w") truncated the file
SaveOutcomes == {"ok", "open_error", "write_error"}

\* a save that stores the whole list; the round trip must tell it from save_cache
save_cache_uncapped(file, papers, now, outcome) ==
  IF outcome = "ok"
  THEN [kind |-> "object", saved_at |-> now, papers |-> SelectSeq(papers, IsDict)]
  ELSE IF outcome = "open_error" THEN file
  ELSE GarbageFile

\* _save_cache: the file after the call
save_cache(file, papers, now, outcome) ==
  IF outcome = "ok"
  THEN [kind |-> "object", saved_at |-> now,
        papers |-> SelectSeq(Take(papers, CACHE_CAP), IsDict)]
  ELSE IF outcome = "open_error" THEN file
  ELSE GarbageFile

\* a load that finds nothing; the cache fallback must tell it from load_cache
load_cache_nothing(file, now, max_age_hours) == <<>>

\* a load for which the boundary age is already expired; the expiry property
\* must tell it from load_cache
load_cache_expired_at_boundary(file, now, max_age_hours) ==
  IF file.kind # "object" THEN <<>>
  ELSE IF file.saved_at > 0 /\ (now - file.saved_at) >= max_age_hours * 3600 THEN <<>>
  ELSE SelectSeq(file.papers, IsDict)

\* a load for which a file without a time of saving is as old as the clock
\* says; the property of unstamped files must tell it from load_cache
load_cache_expiring_unstamped(file, now, max_age_hours) ==
  IF file.kind # "object" THEN <<>>
  ELSE IF (now - file.saved_at) > max_age_hours * 3600 THEN <<>>
  ELSE SelectSeq(file.papers, IsDict)

\* _load_cache
load_cache(file, now, max_age_hours) ==
  IF file.kind # "object" THEN <<>>
  ELSE IF file.saved_at > 0 /\ (now - file.saved_at) > max_age_hours * 3600 THEN <<>>
  ELSE SelectSeq(file.papers, IsDict)

(***************************************************************************)
(* The plan builder of StepFetchArxivPapers.run (lines 35-70).  A payload  *)
(* value is [islist, items] where a list is expected and [isint, val]      *)
(* where an integer is expected.                                           *)
(***************************************************************************)
RECURSIVE StripNonBlank(_)
StripNonBlank(items) ==
  IF items = <<>> THEN <<>>
  ELSE (IF Strip(Head(items)) # <<>> THEN <<Strip(Head(items))>> ELSE <<>>)
       \o StripNonBlank(Tail(items))

\* a _norm_list that hands back an empty list when every entry is blank; the
\* properties of the plan's lists must tell it from norm_list
norm_list_without_default(value, default) ==
  IF ~value.islist THEN default ELSE StripNonBlank(value.items)

\* _norm_list
norm_list(value, default) ==
  IF ~value.islist THEN default
  ELSE IF StripNonBlank(value.items) = <<>> THEN default
  ELSE StripNonBlank(value.items)

\* a parser that answers 0 where the value is no integer; the plan formulas
\* must tell it from safe_int
safe_int_zero(value, default) == IF value.isint THEN value.val ELSE 0

\* _safe_int
safe_int(value, default) == IF value.isint THEN value.val ELSE default

\* a getter that does not clamp; the ranges of the plan must tell it from
\* get_system_param_int
get_system_param_int_unclamped(value, default, min_value, max_value) ==
  safe_int(value, default)

\* get_system_param_int
get_system_param_int(value, default, min_value, max_value) ==
  Max2(min_value, Min2(max_value, safe_int(value, default)))

DefaultCategories == << <<"c", "s", ".", "A", "I">>, <<"c", "s", ".", "L", "G">> >>

DefaultKeywords ==
  << <<"l", "a", "r", "g", "e", " ", "l", "a", "n", "g", "u", "a", "g", "e", " ",
       "m", "o", "d", "e", "l">>,
     <<"t", "r", "a", "n", "s", "f", "o", "r", "m", "e", "r">> >>

\* lines 39-70: the plan the rest of run works with
BuildPlan(payload) ==
  LET categories == Take(norm_list(payload.categories, DefaultCategories), 2)
      keywords == Take(norm_list(payload.keywords, DefaultKeywords), 2)
      configured_final_count == get_system_param_int(payload.final_output_paper_count, 5, 1, 50)
      configured_max_results == get_system_param_int(payload.arxiv_fetch_max_results, 20, 5, 300)
      max_results == Max2(configured_final_count,
                          Min2(300, safe_int(payload.max_results, configured_max_results)))
      target_count == configured_final_count
      fetch_count == Max2(40, Min2(300, Max2(max_results * 4, Max2(target_count * 12, 80))))
      coarse_target_count ==
        Max2(target_count, Min2(120, Max2(max_results, Max2(target_count * 6, 30))))
      query_en == Strip(payload.original_input_en)
      query_text == IF query_en # <<>> THEN query_en
                    ELSE StrOr(Strip(payload.original_input), JoinSpace(keywords))
  IN [categories |-> categories, keywords |-> keywords, max_results |-> max_results,
      target_count |-> target_count, fetch_count |-> fetch_count,
      coarse_target_count |-> coarse_target_count, query_text |-> query_text,
      semantic_model |-> payload.sentence_transformer_model]

(***************************************************************************)
(* _build_query and the attempt plans of _fetch_arxiv_resilient.           *)
(***************************************************************************)
\* " OR ".join(prefix + x + suffix for x in xs)
RECURSIVE JoinOr(_, _, _)
JoinOr(xs, prefix, suffix) ==
  IF xs = <<>> THEN <<>>
  ELSE IF Len(xs) = 1 THEN prefix \o xs[1] \o suffix
  ELSE prefix \o xs[1] \o suffix \o <<" ", "O", "R", " ">> \o JoinOr(Tail(xs), prefix, suffix)

\* a query builder that joins the two groups with OR; the query form
\* properties must tell it from build_query
build_query_either(categories, keywords) ==
  <<"(">> \o JoinOr(categories, <<"c", "a", "t", ":">>, <<>>)
    \o <<")", " ", "O", "R", " ", "(">>
    \o JoinOr(keywords, <<"a", "l", "l", ":", "\"">>, <<"\"">>) \o <<")">>

build_query(categories, keywords) ==
  LET cat_q == JoinOr(categories, <<"c", "a", "t", ":">>, <<>>)
      kw_q == JoinOr(keywords, <<"a", "l", "l", ":", "\"">>, <<"\"">>)
  IN IF cat_q # <<>> /\ kw_q # <<>>
     THEN <<"(">> \o cat_q \o <<")", " ", "A", "N", "D", " ", "(">> \o kw_q \o <<")">>
     ELSE IF cat_q # <<>> THEN cat_q
     ELSE StrOr(kw_q, <<"a", "l", "l", ":", "m", "a", "c", "h", "i", "n", "e", " ",
                        "l", "e", "a", "r", "n", "i", "n", "g">>)

\* a fetcher that tries the fallback query before the strict one; the attempt
\* order properties must tell it from Plans
PlansFallbackFirst(categories, keywords, fetch_count) ==
  LET q == build_query(Take(categories, 1), Take(keywords, 1))
  IN << [label |-> "fallback_1c1k", query |-> q, count |-> Max2(fetch_count, 20),
         timeouts |-> <<20, 35>>],
        [label |-> "strict_2c2k", query |-> q, count |-> fetch_count,
         timeouts |-> <<20, 30, 45>>] >>

\* lines 263-274: plans = [(label, query, count, timeouts), ...]
Plans(categories, keywords, fetch_count) ==
  LET strict_categories == IF categories # <<>> THEN Take(categories, 2)
                           ELSE << <<"c", "s", ".", "A", "I">> >>
      strict_keywords == IF keywords # <<>> THEN Take(keywords, 2)
                         ELSE << <<"m", "a", "c", "h", "i", "n", "e", " ",
                                   "l", "e", "a", "r", "n", "i", "n", "g">> >>
  IN << [label |-> "strict_2c2k",
         query |-> build_query(strict_categories, strict_keywords),
         count |-> fetch_count, timeouts |-> <<20, 30, 45>>],
        [label |-> "fallback_1c1k",
         query |-> build_query(Take(strict_categories, 1), Take(strict_keywords, 1)),
         count |-> Max2(fetch_count, 20), timeouts |-> <<20, 35>>] >>

\* int(count * 0.7) in IEEE double arithmetic: the product falls just below
\* the exact value for these counts
FloatShortfall == {90, 170, 180}

\* a fetcher that rounds 0.7 * count to the nearest integer; the request
\* size properties must tell it from RelevanceCount
RelevanceCountRounded(count) == Max2(1, (7 * count + 5) \div 10)

\* relevance_count = max(1, int(count * 0.7))
RelevanceCount(count) ==
  Max2(1, (7 * count) \div 10 - (IF count \in FloatShortfall THEN 1 ELSE 0))

\* recency_count = max(1, int(count) - relevance_count)
RecencyCount(count) == Max2(1, count - RelevanceCount(count))

\* the fetch_count handed to _fetch_arxiv_by_query for each sub-request
RelevanceFetchCount(count) == Max2(5, Min2(300, RelevanceCount(count)))
RecencyFetchCount(count) == Max2(3, Min2(300, RecencyCount(count)))

\* the position after (pi, ti) in `for plan in plans: for timeout in timeouts`,
\* skipping a plan whose query is blank; pi = Len(plans) + 1 when the loops end
RECURSIVE SkipBlank(_, _)
SkipBlank(plans, pi) ==
  IF pi > Len(plans) THEN pi
  ELSE IF Strip(plans[pi].query) = <<>> THEN SkipBlank(plans, pi + 1)
  ELSE pi

NextPos(plans, pi, ti) ==
  IF ti < Len(plans[pi].timeouts) THEN [pi |-> pi, ti |-> ti + 1]
  ELSE [pi |-> SkipBlank(plans, pi + 1), ti |-> 1]

\* errors.append(f"{label}:t{timeout_sec}:{e}") / errors.append(f"{label}:empty")
ExceptionError(label, timeout_sec, e) ==
  [label |-> label, kind |-> "exception", timeout |-> timeout_sec, error |-> e]
EmptyError(label) == [label |-> label, kind |-> "empty", timeout |-> 0, error |-> ""]

(***************************************************************************)
(* _fetch_arxiv_by_query: the entries of the feed the server returned,     *)
(* parsed (lines 199-240).  A feed entry is [id, title, summary, link],    *)
(* link being the href of its rel="alternate" link ("" when it has none).  *)
(***************************************************************************)
ParseEntry(e) ==
  LET paper_id == Strip(e.id)
  IN [id |-> paper_id, title |-> Strip(e.title), summary |-> Strip(e.summary),
      url |-> StrOr(Strip(e.link), paper_id)]

fetch_arxiv_by_query(feed) == AsList([i \in 1..Len(feed) |-> ParseEntry(feed[i])])

(***************************************************************************)
(* The environment: the bounds of the model, the result sets the arXiv     *)
(* server may hold, the network conditions, the cache files found on disk  *)
(* and the requests the earlier pipeline steps hand over.                  *)
(***************************************************************************)
\* pipeline runs explored
MaxRuns == 2

\* entries of the long result set (more than the cache keeps)
LongLen == 82

\* papers of the long list found in a cache file this step did not write
ForeignLen == 34

\* the wall clock (seconds) when the model starts
StartClock == 1000000

\* papers of the longest pool handed to a function called on its own
MaxPool == 3

\* threads of the longest thread list of a feature
MaxThreads == 3

Digits == <<"0", "1", "2", "3", "4", "5", "6", "7", "8", "9">>

LongTitle(i) ==
  IF i % 3 = 0 THEN <<"G", "P", "T">>
  ELSE IF i % 3 = 1 THEN <<"b", "e", "r", "t">>
  ELSE <<"g", "p", "t", " ", "a", "i">>

LongEntry(i) ==
  [id |-> <<"p", Digits[((i \div 10) % 10) + 1], Digits[(i % 10) + 1]>>,
   title |-> LongTitle(i), summary |-> <<>>, link |-> <<>>]

EntryA == [id |-> <<" ", "a">>, title |-> <<"G", "P", "T">>, summary |-> <<"a", "i">>,
           link |-> <<"u", "a">>]
EntryB == [id |-> <<"b">>, title |-> <<"b", "e", "r", "t">>, summary |-> <<"a", "i">>,
           link |-> <<>>]
\* the id of EntryA under another title
EntryA2 == [id |-> <<"a">>, title |-> <<"T", "5", " ", "x">>, summary |-> <<>>,
            link |-> <<"u", "a">>]
\* an entry with no id, no title and no alternate link
EntryE == [id |-> <<>>, title |-> <<>>, summary |-> <<"g", "p", "t">>, link |-> <<>>]
\* an entry known by its alternate link only
EntryU == [id |-> <<>>, title |-> <<"t", "5">>, summary |-> <<"g", "p", "t">>,
           link |-> <<"u", "c">>]

\* an entry whose title and summary hold no token of two characters
EntryN == [id |-> <<"n">>, title |-> <<"x">>, summary |-> <<"?">>, link |-> <<>>]

LongFeed == [i \in 1..LongLen |-> LongEntry(i)]

\* the result sets a query may have on the server
ResultSets == {<<>>, <<EntryA, EntryB>>, <<EntryA2, EntryE, EntryU>>, LongFeed}

\* the server returns at most max_results entries
ServerFeed(result_set, max_results) == Take(result_set, max_results)

\* what one sub-request can do under a network condition: raise, or return
\* a result set.  "any" leaves every sub-request free; the others fix what
\* the server does for the whole run:
\*   down          every request times out
\*   blank         every request returns an empty feed
\*   small         the two sort orders return two short overlapping feeds
\*   long          every request returns the head of the long feed
\*   strict_fails  the strict query times out at 20 seconds and is empty
\*                 afterwards; the fallback query has results
Outcomes(cond, label, timeout_sec, sort_by) ==
  LET raise == {[kind |-> "raise", error |-> "timed out", feed |-> <<>>]}
      ok(sets) == {[kind |-> "ok", error |-> "", feed |-> f] : f \in sets}
  IN CASE cond = "any" -> raise \cup ok(ResultSets)
       [] cond = "down" -> raise
       [] cond = "blank" -> ok({<<>>})
       [] cond = "small" -> IF sort_by = "relevance" THEN ok({<<EntryA, EntryB>>})
                            ELSE ok({<<EntryA2, EntryE, EntryU>>})
       [] cond = "long" -> ok({LongFeed})
       [] cond = "strict_fails" ->
            IF label = "strict_2c2k"
            THEN (IF timeout_sec = 20 THEN raise ELSE ok({<<>>}))
            ELSE ok({<<EntryB, EntryA>>})

NetConditions == {"down", "blank", "small", "long", "strict_fails"}

\* papers as a cache file this step did not write may hold them
ForeignA == [id |-> <<"a">>, url |-> <<"u", "a">>, title |-> <<"G", "P", "T">>,
             summary |-> <<"a", "i">>]
ForeignA2 == [id |-> <<"a">>, url |-> <<"u", "b">>, title |-> <<"b", "e", "r", "t">>,
              summary |-> <<>>]
ForeignNoKey == [id |-> <<>>, url |-> <<>>, title |-> <<>>, summary |-> <<"g", "p", "t">>]
ForeignBlankId == [id |-> <<" ">>, url |-> <<"u", "d">>, title |-> <<"g", "p", "t">>,
                   summary |-> <<>>]

ForeignList ==
  <<ForeignA, ForeignA2, ForeignNoKey, NonDict, ForeignBlankId>>
    \o [i \in 1..ForeignLen |-> ParseEntry(LongEntry(i))]

CacheObject(saved_at, list) == [kind |-> "object", saved_at |-> saved_at, papers |-> list]

\* the cache file found when the application starts
InitialCacheFiles ==
  {NoFile, GarbageFile, NonMappingFile,
   CacheObject(0, ForeignList), CacheObject(StartClock, ForeignList)}

\* seconds between two readings of the clock (each run reads it once, in
\* _save_cache or in _load_cache)
Elapsed == {2 * 3600, MAX_AGE_HOURS * 3600, MAX_AGE_HOURS * 3600 + 1}

NotAList == [islist |-> FALSE, items |-> <<>>]
ListOf(items) == [islist |-> TRUE, items |-> items]
NotAnInt == [isint |-> FALSE, val |-> 0]
IntOf(n) == [isint |-> TRUE, val |-> n]

\* what the earlier steps and the settings hand to the fetch step
Payloads ==
  {[categories |-> NotAList,
    keywords |-> ListOf(<< <<" ", "G", "P", "T", " ">> >>),
    max_results |-> IntOf(10),
    final_output_paper_count |-> IntOf(5),
    arxiv_fetch_max_results |-> NotAnInt,
    original_input_en |-> <<"g", "p", "t", " ", "a", "i">>,
    original_input |-> <<>>,
    sentence_transformer_model |-> DefaultModel],
   [categories |-> ListOf(<< <<"c", "s", ".", "C", "L">> >>),
    keywords |-> ListOf(<< <<"b", "e", "r", "t">>, <<" ">>, <<"t", "5">>, <<"x">> >>),
    max_results |-> NotAnInt,
    final_output_paper_count |-> IntOf(50),
    arxiv_fetch_max_results |-> IntOf(20),
    original_input_en |-> <<>>,
    original_input |-> <<" ">>,
    sentence_transformer_model |-> "unknown-model"]}

(***************************************************************************)
(* State.                                                                  *)
(***************************************************************************)
VARIABLES
  clock,            \* time.time()
  cache_file,       \* arxiv_fallback_cache.json
  st_model_cache,   \* StepFetchArxivPapers._st_model_cache, keys in insertion order
  runs,             \* pipeline runs started so far
  pc,               \* where the running fetch step is
  net,              \* the network condition of this run
  plan,             \* the plan of this run (BuildPlan) and its attempt plans
  plan_idx,         \* _fetch_arxiv_resilient: index into plans
  timeout_idx,      \* _fetch_arxiv_resilient: index into the plan's timeouts
  relevance_papers, \* _fetch_arxiv_resilient: result of the first sub-request
  errors,           \* _fetch_arxiv_resilient: errors
  requests,         \* every sub-request sent to the server in this run, in order
  attempt_log,      \* every finished attempt of this run and how it ended
  papers,           \* run: papers
  fetch_meta,       \* run: fetch_meta
  locals,           \* run: filtered, coarse_ranked, fine_ranked, selected
  ctx_data,         \* ctx.data as the fetch step leaves it
  hist,             \* what this run did to the cache file
  last_save,        \* the call of _save_cache that wrote the file as it is now
  call,             \* a function called on its own: its arguments and what it returned
  sessions          \* the main window: the sessions created, each with its worker

vars == <<clock, cache_file, st_model_cache, runs, pc, net, plan, plan_idx, timeout_idx,
          relevance_papers, errors, requests, attempt_log, papers, fetch_meta, locals,
          ctx_data, hist, last_save, call, sessions>>

NoEntry == "<absent>"

\* errs["arxiv_fetch"] when the run fell back to the cache (line 139)
CacheWarning == "arXiv network timed out; fell back to locally cached candidate papers"

NoMeta == [source |-> "unknown", errors |-> <<>>, used_cache |-> FALSE]

NoLocals == [filtered |-> <<>>, coarse_ranked |-> <<>>,
             fine |-> [ranked |-> <<>>, backend |-> "bm25", model |-> "", cache |-> <<>>],
             selected |-> <<>>]

EmptyCtx ==
  [keys |-> {},
   arxiv_fetch_config |-> [fetch_source |-> "unknown", fetch_errors |-> <<>>,
                           fine_backend |-> "", fine_model |-> "",
                           target_count |-> 0, coarse_target_count |-> 0,
                           fetch_count |-> 0, max_results |-> 0],
   arxiv_total_fetched |-> 0,
   arxiv_keyword_filtered |-> 0,
   arxiv_selected_count |-> 0,
   arxiv_selected_papers |-> <<>>,
   arxiv_compare_result |-> NoEntry,
   arxiv_organized_report |-> NoEntry,
   init_errors |-> [arxiv_fetch |-> NoEntry, arxiv_compare |-> NoEntry,
                    arxiv_organize |-> NoEntry]]

NoHist == [live |-> <<>>, file_before |-> NoFile, save_calls |-> 0, writes |-> 0,
           load_calls |-> 0, read_at |-> 0, loaded |-> <<>>]

\* no call of _save_cache wrote the file as it is now
NoSave == [ok |-> FALSE, papers |-> <<>>, at |-> 0]

\* no function was called on its own
NoCall == [name |-> "", args |-> <<>>, result |-> <<>>]

NoPlan == [categories |-> <<>>, keywords |-> <<>>, max_results |-> 0, target_count |-> 0,
           fetch_count |-> 0, coarse_target_count |-> 0, query_text |-> <<>>,
           semantic_model |-> "", plans |-> <<>>]

\* the plan of a run together with the attempt plans of its fetch
PlanOf(payload) ==
  LET b == BuildPlan(payload)
  IN [categories |-> b.categories, keywords |-> b.keywords, max_results |-> b.max_results,
      target_count |-> b.target_count, fetch_count |-> b.fetch_count,
      coarse_target_count |-> b.coarse_target_count, query_text |-> b.query_text,
      semantic_model |-> b.semantic_model,
      plans |-> Plans(b.categories, b.keywords, b.fetch_count)]

(***************************************************************************)
(* _fetch_arxiv_resilient, one sub-request per step.                       *)
(***************************************************************************)
CurPlan == plan.plans[plan_idx]
CurTimeout == CurPlan.timeouts[timeout_idx]

\* a return that raises the used_cache flag when the result is empty; the
\* properties of a fetch without any papers must tell it from FetchReturns
FetchReturnsFlaggingEmpty(result, source, errs) ==
  /\ papers' = result
  /\ fetch_meta' = [source |-> source, errors |-> errs, used_cache |-> (result = <<>>)]
  /\ hist' = [hist EXCEPT !.live = result]
  /\ pc' = "fetched"
  /\ UNCHANGED <<plan_idx, timeout_idx>>

\* `return papers, {...}` / `return [], {...}`
FetchReturns(result, source, errs) ==
  /\ papers' = result
  /\ fetch_meta' = [source |-> source, errors |-> errs, used_cache |-> FALSE]
  /\ hist' = [hist EXCEPT !.live = result]
  /\ pc' = "fetched"
  /\ UNCHANGED <<plan_idx, timeout_idx>>

\* a fetcher that moves on after a failed attempt without recording the
\* error; the error trail properties must tell it from AttemptFails
AttemptFailsUnrecorded(err) ==
  LET np == NextPos(plan.plans, plan_idx, timeout_idx)
  IN /\ errors' = errors
     /\ relevance_papers' = <<>>
     /\ IF np.pi > Len(plan.plans)
        THEN FetchReturns(<<>>, "none", errors)
        ELSE /\ plan_idx' = np.pi
             /\ timeout_idx' = np.ti
             /\ pc' = "relevance"
             /\ UNCHANGED <<papers, fetch_meta, hist>>

\* the attempt at (plan_idx, timeout_idx) failed with err: record it and go
\* on with the next timeout, the next plan, or the final return
AttemptFails(err) ==
  LET errs == Append(errors, err)
      np == NextPos(plan.plans, plan_idx, timeout_idx)
  IN /\ errors' = errs
     /\ relevance_papers' = <<>>
     /\ IF np.pi > Len(plan.plans)
        THEN FetchReturns(<<>>, "none", errs)
        ELSE /\ plan_idx' = np.pi
             /\ timeout_idx' = np.ti
             /\ pc' = "relevance"
             /\ UNCHANGED <<papers, fetch_meta, hist>>

SubRequest(sort_by, max_results) ==
  [label |-> CurPlan.label, query |-> CurPlan.query, timeout |-> CurTimeout,
   sort_by |-> sort_by, max_results |-> max_results]

\* lines 284-290: the relevance-sorted sub-request
FetchRelevance ==
  /\ pc = "relevance"
  /\ requests' = Append(requests, SubRequest("relevance", RelevanceFetchCount(CurPlan.count)))
  /\ \E o \in Outcomes(net, CurPlan.label, CurTimeout, "relevance") :
       IF o.kind = "raise"
       THEN /\ AttemptFails(ExceptionError(CurPlan.label, CurTimeout, o.error))
            /\ attempt_log' = Append(attempt_log,
                 [label |-> CurPlan.label, timeout |-> CurTimeout, merged |-> -1])
       ELSE /\ relevance_papers' =
                 fetch_arxiv_by_query(ServerFeed(o.feed, RelevanceFetchCount(CurPlan.count)))
            /\ pc' = "recency"
            /\ UNCHANGED <<plan_idx, timeout_idx, errors, attempt_log, papers, fetch_meta, hist>>
  /\ call' = NoCall
  /\ UNCHANGED <<sessions, clock, cache_file, st_model_cache, runs, net, plan,
                 locals, ctx_data, last_save>>

\* a fetcher that takes the relevance papers as the attempt's result when
\* the recency sub-request raises; the both-or-nothing property of an
\* attempt must tell it from FetchRecency
FetchRecencyTolerant ==
  /\ pc = "recency"
  /\ requests' = Append(requests, SubRequest("submittedDate", RecencyFetchCount(CurPlan.count)))
  /\ \E o \in Outcomes(net, CurPlan.label, CurTimeout, "submittedDate") :
       IF o.kind = "raise"
       THEN /\ attempt_log' = Append(attempt_log,
                 [label |-> CurPlan.label, timeout |-> CurTimeout, merged |-> -1])
            /\ call' = [name |-> "recency_raised", args |-> <<relevance_papers>>,
                        result |-> <<>>]
            /\ IF relevance_papers # <<>>
               THEN /\ errors' = Append(errors, ExceptionError(CurPlan.label, CurTimeout, o.error))
                    /\ FetchReturns(relevance_papers, CurPlan.label, errors')
                    /\ UNCHANGED relevance_papers
               ELSE AttemptFails(ExceptionError(CurPlan.label, CurTimeout, o.error))
       ELSE \E recency_papers \in
                 {fetch_arxiv_by_query(ServerFeed(o.feed, RecencyFetchCount(CurPlan.count)))} :
            \E merged \in {merge_unique_papers(relevance_papers, recency_papers)} :
               /\ call' = [name |-> "_merge_unique_papers",
                           args |-> <<relevance_papers, recency_papers>>,
                           result |-> merged]
               /\ attempt_log' = Append(attempt_log,
                    [label |-> CurPlan.label, timeout |-> CurTimeout, merged |-> Len(merged)])
               /\ IF merged # <<>>
                  THEN /\ FetchReturns(merged, CurPlan.label, errors)
                       /\ UNCHANGED <<errors, relevance_papers>>
                  ELSE AttemptFails(EmptyError(CurPlan.label))
  /\ UNCHANGED <<sessions, clock, cache_file, st_model_cache, runs, net, plan,
                 locals, ctx_data, last_save>>

\* lines 291-304: the recency-sorted sub-request, the merge (line 299, kept
\* in `call` with its two groups) and the verdict; when the sub-request
\* raises, the except clause of the attempt (line 305) is entered with
\* relevance_papers bound: `call` keeps what was bound
FetchRecency ==
  /\ pc = "recency"
  /\ requests' = Append(requests, SubRequest("submittedDate", RecencyFetchCount(CurPlan.count)))
  /\ \E o \in Outcomes(net, CurPlan.label, CurTimeout, "submittedDate") :
       IF o.kind = "raise"
       THEN /\ AttemptFails(ExceptionError(CurPlan.label, CurTimeout, o.error))
            /\ attempt_log' = Append(attempt_log,
                 [label |-> CurPlan.label, timeout |-> CurTimeout, merged |-> -1])
            /\ call' = [name |-> "recency_raised", args |-> <<relevance_papers>>,
                        result |-> <<>>]
       ELSE \E recency_papers \in
                 {fetch_arxiv_by_query(ServerFeed(o.feed, RecencyFetchCount(CurPlan.count)))} :
            \E merged \in {merge_unique_papers(relevance_papers, recency_papers)} :
               /\ call' = [name |-> "_merge_unique_papers",
                           args |-> <<relevance_papers, recency_papers>>,
                           result |-> merged]
               /\ attempt_log' = Append(attempt_log,
                    [label |-> CurPlan.label, timeout |-> CurTimeout, merged |-> Len(merged)])
               /\ IF merged # <<>>
                  THEN /\ FetchReturns(merged, CurPlan.label, errors)
                       /\ UNCHANGED <<errors, relevance_papers>>
                  ELSE AttemptFails(EmptyError(CurPlan.label))
  /\ UNCHANGED <<sessions, clock, cache_file, st_model_cache, runs, net, plan,
                 locals, ctx_data, last_save>>

(***************************************************************************)
(* StepFetchArxivPapers.run.                                               *)
(***************************************************************************)
\* lines 35-72: build the plan and enter _fetch_arxiv_resilient
StartRun ==
  /\ pc \in {"idle", "organized"}
  /\ runs < MaxRuns
  /\ runs' = runs + 1
  /\ \E payload \in Payloads, cond \in NetConditions :
       \E p \in {PlanOf(payload)} :
       \E first \in {SkipBlank(p.plans, 1)} :
          /\ plan' = p
          /\ net' = cond
          /\ errors' = <<>>
          /\ relevance_papers' = <<>>
          /\ requests' = <<>>
          /\ attempt_log' = <<>>
          /\ locals' = NoLocals
          /\ ctx_data' = EmptyCtx
          /\ call' = NoCall
          /\ IF first > Len(p.plans)
             THEN /\ pc' = "fetched"
                  /\ plan_idx' = first
                  /\ timeout_idx' = 1
                  /\ papers' = <<>>
                  /\ fetch_meta' = [source |-> "none", errors |-> <<>>, used_cache |-> FALSE]
                  /\ hist' = [NoHist EXCEPT !.file_before = cache_file]
             ELSE /\ pc' = "relevance"
                  /\ plan_idx' = first
                  /\ timeout_idx' = 1
                  /\ papers' = <<>>
                  /\ fetch_meta' = NoMeta
                  /\ hist' = [NoHist EXCEPT !.file_before = cache_file]
  /\ UNCHANGED <<sessions, clock, cache_file, st_model_cache, last_save>>

\* a run that saves the cached papers again when it falls back to them; the
\* frame property of the cache file must tell it from RunCache
RunCacheRefreshing ==
  /\ pc = "fetched"
  /\ \E elapsed \in Elapsed :
       \E now \in {clock + elapsed} :
       \E cached \in {load_cache(cache_file, now, MAX_AGE_HOURS)} :
          /\ clock' = now
          /\ cache_file' = save_cache(cache_file, IF papers # <<>> THEN papers ELSE cached,
                                      now, "ok")
          /\ hist' = IF papers # <<>>
                     THEN [hist EXCEPT !.save_calls = 1, !.writes = 1, !.read_at = now]
                     ELSE [hist EXCEPT !.load_calls = 1, !.read_at = now, !.loaded = cached]
          /\ last_save' = last_save
          /\ papers' = IF papers = <<>> /\ cached # <<>> THEN cached ELSE papers
          /\ fetch_meta' = IF papers = <<>> /\ cached # <<>>
                           THEN [fetch_meta EXCEPT !.source = "cache", !.used_cache = TRUE]
                           ELSE fetch_meta
  /\ pc' = "cached"
  /\ UNCHANGED <<sessions, call, st_model_cache, runs, net, plan, plan_idx, timeout_idx,
                 relevance_papers, errors, requests, attempt_log, locals, ctx_data>>

\* a run that reports a failed save among the fetch errors; the property of
\* the advisory cache must tell it from RunCache
RunCacheReportingSave ==
  /\ pc = "fetched"
  /\ \E elapsed \in Elapsed, outcome \in SaveOutcomes :
       \E now \in {clock + elapsed} :
       \E cached \in {load_cache(cache_file, now, MAX_AGE_HOURS)} :
          /\ clock' = now
          /\ IF papers # <<>>
             THEN /\ cache_file' = save_cache(cache_file, papers, now, outcome)
                  /\ hist' = [hist EXCEPT !.save_calls = @ + 1,
                                          !.writes = @ + (IF outcome = "ok" THEN 1 ELSE 0),
                                          !.read_at = now]
                  /\ last_save' = IF outcome = "ok"
                                  THEN [ok |-> TRUE, papers |-> papers, at |-> now]
                                  ELSE IF outcome = "open_error" THEN last_save
                                  ELSE NoSave
                  /\ papers' = papers
                  /\ fetch_meta' = IF outcome = "ok" THEN fetch_meta
                                   ELSE [fetch_meta EXCEPT
                                           !.errors = Append(@, "cache:save failed")]
             ELSE /\ hist' = [hist EXCEPT !.load_calls = @ + 1, !.read_at = now,
                                          !.loaded = cached]
                  /\ last_save' = last_save
                  /\ papers' = IF cached # <<>> THEN cached ELSE papers
                  /\ fetch_meta' = IF cached # <<>>
                                   THEN [fetch_meta EXCEPT !.source = "cache",
                                                           !.used_cache = TRUE]
                                   ELSE fetch_meta
                  /\ UNCHANGED cache_file
  /\ pc' = "cached"
  /\ UNCHANGED <<sessions, call, st_model_cache, runs, net, plan, plan_idx, timeout_idx,
                 relevance_papers, errors, requests, attempt_log, locals, ctx_data>>

\* lines 73-80: save the live papers, or fall back to the cache
RunCache ==
  /\ pc = "fetched"
  /\ \E elapsed \in Elapsed, outcome \in SaveOutcomes :
       \E now \in {clock + elapsed} :
       \E cached \in {load_cache(cache_file, now, MAX_AGE_HOURS)} :
          /\ clock' = now
          /\ IF papers # <<>>
             THEN /\ cache_file' = save_cache(cache_file, papers, now, outcome)
                  /\ hist' = [hist EXCEPT !.save_calls = @ + 1,
                                          !.writes = @ + (IF outcome = "ok" THEN 1 ELSE 0),
                                          !.read_at = now]
                  /\ last_save' = IF outcome = "ok"
                                  THEN [ok |-> TRUE, papers |-> papers, at |-> now]
                                  ELSE IF outcome = "open_error" THEN last_save
                                  ELSE NoSave
                  /\ UNCHANGED <<papers, fetch_meta>>
             ELSE /\ hist' = [hist EXCEPT !.load_calls = @ + 1, !.read_at = now,
                                          !.loaded = cached]
                  /\ last_save' = last_save
                  /\ papers' = IF cached # <<>> THEN cached ELSE papers
                  /\ fetch_meta' = IF cached # <<>>
                                   THEN [fetch_meta EXCEPT !.source = "cache",
                                                           !.used_cache = TRUE]
                                   ELSE fetch_meta
                  /\ UNCHANGED cache_file
  /\ pc' = "cached"
  /\ UNCHANGED <<sessions, call, st_model_cache, runs, net, plan, plan_idx, timeout_idx,
                 relevance_papers, errors, requests, attempt_log, locals, ctx_data>>

\* lines 82-84: the keyword filter and the coarse ranking
CoarseStage(all_papers, p) ==
  [filtered |-> keyword_filter(all_papers, p.keywords),
   coarse_ranked |-> rank_keyword_overlap(all_papers, p.query_text)]

\* lines 85-114: re-rank the coarse candidates and merge; the locals of run
\* after the selection is made, r telling how the call of _rank_semantic goes
FineStage(coarse, p, model_cache, r) ==
  LET coarse_candidates == Take(coarse.coarse_ranked, p.coarse_target_count)
      fine == rank_semantic(coarse_candidates, p.query_text, p.semantic_model,
                            model_cache, r.outcome, r.fn)
  IN [filtered |-> coarse.filtered, coarse_ranked |-> coarse.coarse_ranked, fine |-> fine,
      selected |-> MergeSelection(fine.ranked, coarse.coarse_ranked,
                                  p.coarse_target_count)]

\* lines 82-140: the ranking, then what run publishes in ctx.data
RankAndSelect ==
  /\ pc = "cached"
  /\ \E coarse \in {CoarseStage(papers, plan)} :
       \E r \in SemanticRuns : locals' = FineStage(coarse, plan, st_model_cache, r)
  /\ st_model_cache' = locals'.fine.cache
  /\ ctx_data' =
       [keys |-> {"arxiv_fetch_config", "arxiv_total_fetched",
                  "arxiv_keyword_filtered", "arxiv_selected_count",
                  "arxiv_selected_papers"}
                   \cup (IF fetch_meta.used_cache THEN {"init_errors"} ELSE {}),
        arxiv_fetch_config |->
          [fetch_source |-> fetch_meta.source, fetch_errors |-> fetch_meta.errors,
           fine_backend |-> locals'.fine.backend, fine_model |-> locals'.fine.model,
           target_count |-> plan.target_count,
           coarse_target_count |-> plan.coarse_target_count,
           fetch_count |-> plan.fetch_count, max_results |-> plan.max_results],
        arxiv_total_fetched |-> Len(papers),
        arxiv_keyword_filtered |-> Len(locals'.filtered),
        arxiv_selected_count |-> Len(locals'.selected),
        arxiv_selected_papers |-> locals'.selected,
        arxiv_compare_result |-> ctx_data.arxiv_compare_result,
        arxiv_organized_report |-> ctx_data.arxiv_organized_report,
        init_errors |-> IF fetch_meta.used_cache
                        THEN [ctx_data.init_errors EXCEPT !.arxiv_fetch = CacheWarning]
                        ELSE ctx_data.init_errors]
  /\ pc' = "done"
  /\ UNCHANGED <<sessions, call, clock, cache_file, runs, net, plan, plan_idx,
                 timeout_idx, relevance_papers, errors, requests, attempt_log, papers,
                 fetch_meta, hist, last_save>>

\* str(e) of an exception raised while the embeddings are scored
ScoreError == "embeddings cannot be scored"

\* ctx.data.setdefault(key, value) for the two keys of lines 147-148
SetDefaultSelection(data) ==
  [data EXCEPT
     !.keys = @ \cup {"arxiv_selected_papers", "arxiv_selected_count"},
     !.arxiv_selected_papers = IF "arxiv_selected_papers" \in data.keys THEN @ ELSE <<>>,
     !.arxiv_selected_count = IF "arxiv_selected_count" \in data.keys THEN @ ELSE 0]

\* a handler that records the error and leaves the selection keys unset; the
\* properties of the caught path must tell it from RunCatches
RunCatchesWithoutDefaults(data, error) ==
  [data EXCEPT !.keys = @ \cup {"init_errors"}, !.init_errors.arxiv_fetch = error]

\* lines 142-148: what the except clause of run leaves in ctx.data
RunCatches(data, error) ==
  SetDefaultSelection([data EXCEPT !.keys = @ \cup {"init_errors"},
                                   !.init_errors.arxiv_fetch = error])

\* lines 82-92 and 142-148: the model is at hand and the encoding succeeds,
\* but the embeddings cannot be scored (lines 397-402 are outside the try
\* blocks of _rank_semantic), so run ends in its except clause
RankRaises ==
  /\ pc = "cached"
  /\ papers # <<>>
  /\ Strip(plan.query_text) # <<>>
  /\ st_model_cache' =
       CacheAfterLookup(st_model_cache, SelectedModel(plan.semantic_model), "ok")
  /\ ctx_data' = RunCatches(ctx_data, ScoreError)
  /\ pc' = "caught"
  /\ UNCHANGED <<sessions, call, clock, cache_file, runs, net, plan, plan_idx,
                 timeout_idx, relevance_papers, errors, requests, attempt_log, papers,
                 fetch_meta, locals, hist, last_save>>

(***************************************************************************)
(* StepCompareArxivAbstracts.run and StepOrganizeSelectedPapers.run, the   *)
(* steps InitPipelineWorker.run calls after the fetch step.                *)
(***************************************************************************)
\* str(p.get("id") or "").strip()
PaperId(p) == Strip(p.id)

\* by_id.get(pid): the last paper of the list with this id
RECURSIVE ById(_, _)
ById(papers_in, pid) ==
  IF papers_in = <<>> THEN <<>>
  ELSE LET last == papers_in[Len(papers_in)]
       IN IF PaperId(last) = pid THEN <<last>>
          ELSE ById(SubSeq(papers_in, 1, Len(papers_in) - 1), pid)

\* a loop that appends a paper each time its id is named; the properties of
\* the written selection must tell it from PreferredLoop
RECURSIVE PreferredLoopRepeating(_, _, _, _)
PreferredLoopRepeating(preferred_ids, papers_in, ordered, used) ==
  IF preferred_ids = <<>> THEN [ordered |-> ordered, used |-> used]
  ELSE LET pid == Head(preferred_ids)
           found == ById(papers_in, pid)
       IN IF found # <<>>
          THEN PreferredLoopRepeating(Tail(preferred_ids), papers_in, ordered \o found,
                                      used \cup {pid})
          ELSE PreferredLoopRepeating(Tail(preferred_ids), papers_in, ordered, used)

\* lines 55-59: the papers named by preferred_ids, in that order, once each
RECURSIVE PreferredLoop(_, _, _, _)
PreferredLoop(preferred_ids, papers_in, ordered, used) ==
  IF preferred_ids = <<>> THEN [ordered |-> ordered, used |-> used]
  ELSE LET pid == Head(preferred_ids)
           found == ById(papers_in, pid)
       IN IF found # <<>> /\ pid \notin used
          THEN PreferredLoop(Tail(preferred_ids), papers_in, ordered \o found,
                             used \cup {pid})
          ELSE PreferredLoop(Tail(preferred_ids), papers_in, ordered, used)

\* lines 62-68: fill up with the papers not yet used, in list order, and stop
\* when final_count is reached
RECURSIVE BackfillLoop(_, _, _, _)
BackfillLoop(rest, ordered, used, final_count) ==
  IF rest = <<>> THEN ordered
  ELSE LET pid == PaperId(Head(rest))
           take == pid # <<>> /\ pid \notin used
           now == IF take THEN Append(ordered, Head(rest)) ELSE ordered
       IN IF Len(now) >= final_count THEN now
          ELSE BackfillLoop(Tail(rest), now, IF take THEN used \cup {pid} ELSE used,
                            final_count)

\* lines 30-70: final_selected for a result of the comparison
FinalSelected(papers_in, reply, final_count) ==
  LET top_ids == StripNonBlank(reply.top_matches)
      selected_ids == StripNonBlank(reply.selected_ids)
      preferred_ids == IF top_ids # <<>> THEN top_ids ELSE selected_ids
      st == PreferredLoop(preferred_ids, papers_in, <<>>, {})
      ordered == IF Len(st.ordered) < final_count
                 THEN BackfillLoop(papers_in, st.ordered, st.used, final_count)
                 ELSE st.ordered
  IN Take(ordered, final_count)

\* compare_arxiv_abstracts_with_input for no papers (dual_orchestrator.py,
\* lines 355-362)
NoCandidates == [kind |-> "ok", error |-> "", top_matches |-> <<>>, selected_ids |-> <<>>]

\* what compare_arxiv_abstracts_with_input can do for a list of papers: raise
\* (no API key, no model, the request fails), or return a result whose
\* top_matches and selected_ids name papers of the list, unknown papers, the
\* same paper twice, or nothing
CompareReplies(papers_in) ==
  IF papers_in = <<>> THEN {NoCandidates}
  ELSE LET first == papers_in[1].id
           last == papers_in[Len(papers_in)].id
       IN {[kind |-> "raise", error |-> "OpenAI API Key is empty",
            top_matches |-> <<>>, selected_ids |-> <<>>],
           [kind |-> "ok", error |-> "",
            top_matches |-> <<last, <<"z", "z">>, <<" ">>, last, first>>,
            selected_ids |-> <<first>>],
           [kind |-> "ok", error |-> "", top_matches |-> <<>>,
            selected_ids |-> << <<" ">> \o last >>],
           NoCandidates}

\* a compare step that replaces the selection and leaves the count of the
\* fetch step; the agreement of count and list must tell it from
\* compare_abstracts
compare_abstracts_keeping_count(data, final_count, reply) ==
  IF reply.kind = "raise"
  THEN [data EXCEPT
          !.keys = @ \cup {"init_errors", "arxiv_compare_result"},
          !.init_errors.arxiv_compare = reply.error,
          !.arxiv_compare_result =
             IF "arxiv_compare_result" \in data.keys THEN @ ELSE "{}"]
  ELSE LET final_selected == FinalSelected(data.arxiv_selected_papers, reply, final_count)
       IN IF final_selected # <<>>
          THEN [data EXCEPT
                  !.keys = @ \cup {"arxiv_compare_result", "arxiv_selected_papers"},
                  !.arxiv_selected_papers = final_selected,
                  !.arxiv_compare_result = "result"]
          ELSE [data EXCEPT !.keys = @ \cup {"arxiv_compare_result"},
                            !.arxiv_compare_result = "result"]

\* StepCompareArxivAbstracts.run on ctx.data, for what the comparison does
compare_abstracts(data, final_count, reply) ==
  IF reply.kind = "raise"
  THEN [data EXCEPT
          !.keys = @ \cup {"init_errors", "arxiv_compare_result"},
          !.init_errors.arxiv_compare = reply.error,
          !.arxiv_compare_result =
             IF "arxiv_compare_result" \in data.keys THEN @ ELSE "{}"]
  ELSE LET final_selected == FinalSelected(data.arxiv_selected_papers, reply, final_count)
       IN IF final_selected # <<>>
          THEN [data EXCEPT
                  !.keys = @ \cup {"arxiv_compare_result", "arxiv_selected_papers",
                                   "arxiv_selected_count"},
                  !.arxiv_selected_papers = final_selected,
                  !.arxiv_selected_count = Len(final_selected),
                  !.arxiv_compare_result = "result"]
          ELSE [data EXCEPT !.keys = @ \cup {"arxiv_compare_result"},
                            !.arxiv_compare_result = "result"]

\* StepCompareArxivAbstracts.run; final_count (line 14) is the setting the
\* fetch step read as target_count (line 46)
CompareAbstracts ==
  /\ pc \in {"done", "caught"}
  /\ \E reply \in CompareReplies(ctx_data.arxiv_selected_papers) :
       /\ ctx_data' = compare_abstracts(ctx_data, plan.target_count, reply)
       /\ call' = [name |-> "compare_arxiv_abstracts_with_input",
                   args |-> [papers |-> ctx_data.arxiv_selected_papers,
                             after |-> pc],
                   result |-> reply]
  /\ pc' = "compared"
  /\ UNCHANGED <<sessions, clock, cache_file, st_model_cache, runs, net, plan, plan_idx,
                 timeout_idx, relevance_papers, errors, requests, attempt_log, papers,
                 fetch_meta, locals, hist, last_save>>

\* what organize_selected_papers_report can do
ReportOutcomes == {"report", "raise"}

\* StepOrganizeSelectedPapers.run
OrganizeSelected ==
  /\ pc = "compared"
  /\ \E outcome \in ReportOutcomes :
       /\ call' = [name |-> "organize_selected_papers_report",
                   args |-> [selected_papers |-> ctx_data.arxiv_selected_papers,
                             after |-> call.args.after],
                   result |-> outcome]
       /\ ctx_data' =
            IF outcome = "raise"
            THEN [ctx_data EXCEPT
                    !.keys = @ \cup {"init_errors", "arxiv_organized_report"},
                    !.init_errors.arxiv_organize = "report failed",
                    !.arxiv_organized_report =
                       IF "arxiv_organized_report" \in ctx_data.keys THEN @ ELSE ""]
            ELSE [ctx_data EXCEPT !.keys = @ \cup {"arxiv_organized_report"},
                                  !.arxiv_organized_report = "report"]
  /\ pc' = "organized"
  /\ UNCHANGED <<sessions, clock, cache_file, st_model_cache, runs, net, plan, plan_idx,
                 timeout_idx, relevance_papers, errors, requests, attempt_log, papers,
                 fetch_meta, locals, hist, last_save>>

(***************************************************************************)
(* Specifications.                                                         *)
(***************************************************************************)
\* the application starts: no run yet, any cache file on disk
Init ==
  /\ clock = StartClock
  /\ cache_file \in InitialCacheFiles
  /\ st_model_cache = <<>>
  /\ runs = 0
  /\ pc = "idle"
  /\ net = "down"
  /\ plan = NoPlan
  /\ plan_idx = 1
  /\ timeout_idx = 1
  /\ relevance_papers = <<>>
  /\ errors = <<>>
  /\ requests = <<>>
  /\ attempt_log = <<>>
  /\ papers = <<>>
  /\ fetch_meta = NoMeta
  /\ locals = NoLocals
  /\ ctx_data = EmptyCtx
  /\ hist = NoHist
  /\ last_save = NoSave
  /\ call = NoCall
  /\ sessions = <<>>

Next ==
  \/ StartRun \/ FetchRelevance \/ FetchRecency \/ RunCache \/ RankAndSelect
  \/ RankRaises \/ CompareAbstracts \/ OrganizeSelected

\* pipeline runs, one after the other
Spec == Init /\ [][Next]_vars

\* the fetch_count handed to _fetch_arxiv_resilient: the ends of the range
\* of line 65, the counts the plans of Payloads give (80, 300), and counts
\* whose product with 0.7 is not exact (180 is 4 * max_results for 45)
FetchCounts == {40, 80, 90, 180, 300}

\* one call of _fetch_arxiv_resilient with the lists of the plans of
\* Payloads and a fetch_count of FetchCounts, every sub-request free to
\* raise or to return any result set
FetchInit ==
  /\ clock = StartClock
  /\ cache_file = NoFile
  /\ st_model_cache = <<>>
  /\ runs = 1
  /\ pc = "relevance"
  /\ net = "any"
  /\ \E payload \in Payloads, fetch_count \in FetchCounts :
       \E p \in {PlanOf(payload)} :
         plan = [p EXCEPT !.fetch_count = fetch_count,
                          !.plans = Plans(p.categories, p.keywords, fetch_count)]
  /\ plan_idx = 1
  /\ timeout_idx = 1
  /\ relevance_papers = <<>>
  /\ errors = <<>>
  /\ requests = <<>>
  /\ attempt_log = <<>>
  /\ papers = <<>>
  /\ fetch_meta = NoMeta
  /\ locals = NoLocals
  /\ ctx_data = EmptyCtx
  /\ hist = NoHist
  /\ last_save = NoSave
  /\ call = NoCall
  /\ sessions = <<>>

FetchNext == FetchRelevance \/ FetchRecency

FetchSpec == FetchInit /\ [][FetchNext]_vars

(***************************************************************************)
(* Properties of _fetch_arxiv_resilient (checked under FetchSpec).         *)
(***************************************************************************)
\* the attempts in the order the specification gives them
AttemptOrder ==
  << <<"strict_2c2k", 20>>, <<"strict_2c2k", 30>>, <<"strict_2c2k", 45>>,
     <<"fallback_1c1k", 20>>, <<"fallback_1c1k", 35>> >>

AttemptOf(x) == <<x.label, x.timeout>>

\* the place in AttemptOrder of the attempt a sub-request belongs to (0: none)
PlaceOf(x) ==
  IF \E k \in 1..Len(AttemptOrder) : AttemptOrder[k] = AttemptOf(x)
  THEN CHOOSE k \in 1..Len(AttemptOrder) : AttemptOrder[k] = AttemptOf(x)
  ELSE 0

\* the attempts that have sent a sub-request
StartedAttempts == Len(attempt_log) + (IF pc = "recency" THEN 1 ELSE 0)

\* C1: the attempts are made in the order strict@20, strict@30, strict@45,
\* fallback@20, fallback@35, each sending its relevance request and then its
\* recency request; the first attempt whose merged result is non-empty is
\* the last one: the fetch has returned its papers with its label as source
\* and the last sub-request sent is one of that attempt; without such an
\* attempt the fetch returns only after all five
C1_AttemptOrderFirstWin ==
  /\ Len(attempt_log) <= Len(AttemptOrder)
  /\ \A k \in 1..Len(attempt_log) : AttemptOf(attempt_log[k]) = AttemptOrder[k]
  /\ \A i \in 1..Len(requests) : PlaceOf(requests[i]) \in 1..StartedAttempts
  /\ \A k \in 1..StartedAttempts :
       LET mine == SelectSeq(requests, LAMBDA x : PlaceOf(x) = k)
       IN /\ Len(mine) \in {1, 2}
          /\ mine[1].sort_by = "relevance"
          /\ Len(mine) = 2 => mine[2].sort_by = "submittedDate"
  /\ \A i, j \in 1..Len(requests) : i < j => PlaceOf(requests[i]) <= PlaceOf(requests[j])
  /\ \A k \in 1..Len(attempt_log) :
       attempt_log[k].merged > 0 =>
         /\ k = Len(attempt_log)
         /\ pc = "fetched"
         /\ Len(papers) = attempt_log[k].merged
         /\ merge_unique_papers(relevance_papers, <<>>)
              = Take(papers, Len(merge_unique_papers(relevance_papers, <<>>)))
         /\ fetch_meta.source = attempt_log[k].label
         /\ PlaceOf(requests[Len(requests)]) = k
  /\ (pc = "fetched" /\ papers = <<>>) => Len(attempt_log) = Len(AttemptOrder)

\* C1 happens: three strict attempts failed and fallback@20 won
C1_Witness ==
  /\ pc = "fetched"
  /\ Len(attempt_log) = 4
  /\ attempt_log[4].merged > 0
  /\ fetch_meta.source = "fallback_1c1k"
  /\ Len(requests) \in 5..8

\* C2: every failed attempt (exception or empty merged result) has appended
\* one error tagged with its label (and, for an exception, its timeout), in
\* attempt order: a win at attempt k returns k-1 errors; when all five fail
\* the fetch returns [], source "none", used_cache false and five errors,
\* three strict then two fallback; three strict failures and a fallback win
\* give source fallback_1c1k and exactly three strict errors
C2_OneErrorPerFailedAttempt ==
  LET failed == {k \in 1..Len(attempt_log) : attempt_log[k].merged <= 0}
  IN /\ Len(errors) = Cardinality(failed)
     /\ failed = 1..Len(errors)
     /\ \A k \in 1..Len(errors) :
          /\ errors[k].label = attempt_log[k].label
          /\ errors[k].kind = (IF attempt_log[k].merged = 0 THEN "empty" ELSE "exception")
          /\ errors[k].kind = "exception" => errors[k].timeout = attempt_log[k].timeout
     /\ \A k \in 1..Len(attempt_log) :
          attempt_log[k].merged > 0 =>
            /\ fetch_meta.errors = errors
            /\ Len(fetch_meta.errors) = k - 1
            /\ fetch_meta.used_cache = FALSE
     /\ (pc = "fetched" /\ papers = <<>>) =>
          /\ fetch_meta.source = "none"
          /\ fetch_meta.used_cache = FALSE
          /\ fetch_meta.errors = errors
          /\ Len(errors) = 5
          /\ \A k \in 1..3 : errors[k].label = "strict_2c2k"
          /\ \A k \in 4..5 : errors[k].label = "fallback_1c1k"
     /\ (pc = "fetched" /\ Len(attempt_log) = 4 /\ papers # <<>>) =>
          /\ fetch_meta.source = "fallback_1c1k"
          /\ Len(fetch_meta.errors) = 3
          /\ \A k \in 1..3 : fetch_meta.errors[k].label = "strict_2c2k"

\* C2 happens: all five attempts failed, some by exception and some empty
C2_Witness ==
  /\ pc = "fetched"
  /\ papers = <<>>
  /\ Len(fetch_meta.errors) = 5
  /\ \E k \in 1..5 : errors[k].kind = "empty"
  /\ \E k \in 1..5 : errors[k].kind = "exception"

(***************************************************************************)
(* Properties of the cache fallback in StepFetchArxivPapers.run (checked   *)
(* under Spec).                                                            *)
(***************************************************************************)
\* the run has passed lines 73-80
PastCache == pc \in {"cached", "done", "caught", "compared", "organized"}

\* the papers (JSON objects) of the list a cache file holds
PapersIn(file) == SelectSeq(file.papers, LAMBDA p : "nondict" \notin DOMAIN p)

\* C3: when the live fetch of a run came back empty and the cache file held
\* a non-empty paper list saved at most 24 hours before it was read, the run
\* goes on with exactly the cached papers, source "cache" and used_cache
\* true, and publishes the source and the warning init_errors["arxiv_fetch"]
C3_CacheFallback ==
  (/\ PastCache
   /\ hist.live = <<>>
   /\ hist.file_before.kind = "object"
   /\ hist.file_before.saved_at > 0
   /\ hist.read_at - hist.file_before.saved_at <= 24 * 3600
   /\ PapersIn(hist.file_before) # <<>>)
  => /\ papers = PapersIn(hist.file_before)
     /\ fetch_meta.source = "cache"
     /\ fetch_meta.used_cache = TRUE
     /\ pc = "done" =>
          /\ ctx_data.arxiv_fetch_config.fetch_source = "cache"
          /\ ctx_data.arxiv_total_fetched = Len(PapersIn(hist.file_before))
          /\ "init_errors" \in ctx_data.keys
          /\ ctx_data.init_errors.arxiv_fetch = CacheWarning

\* C3 happens: all five attempts failed and a cache saved 2 hours ago is used
C3_Witness ==
  /\ pc = "done"
  /\ Len(fetch_meta.errors) = 5
  /\ hist.file_before.kind = "object"
  /\ hist.read_at - hist.file_before.saved_at = 2 * 3600
  /\ ctx_data.arxiv_fetch_config.fetch_source = "cache"
  /\ ctx_data.arxiv_total_fetched > 0
  /\ ctx_data.init_errors.arxiv_fetch = CacheWarning

C5_ExpiryBoundary ==
  (PastCache /\ hist.load_calls = 1 /\ last_save.ok) =>
    LET age == hist.read_at - last_save.at
    IN /\ cache_file.saved_at = last_save.at
       /\ age > 24 * 3600 => hist.loaded = <<>>
       /\ age <= 24 * 3600 => hist.loaded = cache_file.papers /\ hist.loaded # <<>>

\* C5 happens: a file the step saved is read at the age of exactly 24 hours
C5_Witness ==
  /\ pc = "cached"
  /\ hist.load_calls = 1
  /\ last_save.ok
  /\ hist.read_at - last_save.at = 24 * 3600
  /\ hist.loaded # <<>>

\* C6: after a successful _save_cache(P), a _load_cache within the expiry
\* window returns the first 80 records of P in order (all of P when P has at
\* most 80), and the stored list never has more than 80 records
C6_RoundTrip ==
  last_save.ok =>
    /\ Len(cache_file.papers) <= 80
    /\ (PastCache /\ hist.load_calls = 1 /\ hist.read_at - last_save.at <= 24 * 3600) =>
         /\ Len(hist.loaded) = (IF Len(last_save.papers) <= 80
                                THEN Len(last_save.papers) ELSE 80)
         /\ \A i \in 1..Len(hist.loaded) : hist.loaded[i] = last_save.papers[i]

\* C6 happens: a list of more than 80 papers was saved and is loaded again
C6_Witness ==
  /\ last_save.ok
  /\ Len(last_save.papers) > 80
  /\ pc = "cached"
  /\ hist.load_calls = 1
  /\ Len(hist.loaded) = 80

(***************************************************************************)
(* Properties of the selection merger (checked under Spec).                *)
(***************************************************************************)
\* the lists the merger of the finished run worked on, and its result
FineRanked == locals.fine.ranked
CoarseRanked == locals.coarse_ranked
Selected == ctx_data.arxiv_selected_papers
Cap == plan.coarse_target_count

KeysOf(list) == {IdentityKey(list[i]) : i \in 1..Len(list)}

\* the papers of list whose key is in keys and occurs at no earlier place
FirstOfKey(list, keys) ==
  LET key == AsList([i \in 1..Len(list) |-> IdentityKey(list[i])])
      idx == AsList([i \in 1..Len(list) |-> i])
      kept == SelectSeq(idx, LAMBDA i : key[i] \in keys /\ \A j \in 1..(i - 1) : key[j] # key[i])
  IN AsList([k \in 1..Len(kept) |-> list[kept[k]]])

\* C7: the selection never holds two papers with the same identity key
C7_NoDuplicateKeys ==
  pc = "done" =>
    \A i, j \in 1..Len(Selected) :
      i < j => IdentityKey(Selected[i]) # IdentityKey(Selected[j])

\* C7 happens: papers loaded from the cache, two of them with the same key,
\* went through the merger
C7_Witness ==
  /\ pc = "done"
  /\ fetch_meta.used_cache
  /\ \E i, j \in 1..Len(FineRanked) :
       i < j /\ IdentityKey(FineRanked[i]) = IdentityKey(FineRanked[j])
             /\ IdentityKey(FineRanked[i]) # <<>>
  /\ Len(Selected) > 1

\* C8 as stated: the selection has min(coarse_target_count, number of
\* distinct identity keys in fine and coarse) papers
C8_LengthIsMinOfCapAndKeys ==
  pc = "done" =>
    /\ Len(Selected) = Min2(Cap, Cardinality(KeysOf(FineRanked) \cup KeysOf(CoarseRanked)))
    /\ Len(Selected) <= Cap

\* C8, amended: the selection has min(coarse_target_count, number of
\* distinct non-empty identity keys in fine and coarse) papers, a paper
\* without id, url and title never being selected; it never exceeds the cap
C8_LengthIsMinOfCapAndNonEmptyKeys ==
  pc = "done" =>
    /\ Len(Selected)
         = Min2(Cap, Cardinality((KeysOf(FineRanked) \cup KeysOf(CoarseRanked)) \ {<<>>}))
    /\ Len(Selected) <= Cap

\* C8 happens: a paper with an empty key is among the ranked ones and the
\* selection stays below the cap
C8_Witness ==
  /\ pc = "done"
  /\ <<>> \in KeysOf(CoarseRanked)
  /\ Len(Selected) > 0
  /\ Len(Selected) < Cap

\* C9 as stated: the selection is the fine list without the later
\* occurrences of a key, then, below the cap, the coarse papers with unseen
\* keys in coarse order
C9_FineThenBackfill ==
  pc = "done" =>
    LET all == FineRanked \o CoarseRanked
    IN Selected = Take(FirstOfKey(all, KeysOf(all)), Cap)

\* C9, amended: the selection is the fine list without the papers whose key
\* is empty and without the later occurrences of a key, cut at the cap,
\* then, below the cap, the coarse papers with non-empty unseen keys in
\* coarse order; the papers of the fine list come first
C9_FineThenBackfillNonEmptyKeys ==
  pc = "done" =>
    LET all == FineRanked \o CoarseRanked
        fine_part == Take(FirstOfKey(FineRanked, KeysOf(FineRanked) \ {<<>>}), Cap)
        back_part == FirstOfKey(CoarseRanked,
                                KeysOf(CoarseRanked) \ (KeysOf(FineRanked) \cup {<<>>}))
    IN /\ Selected = Take(FirstOfKey(all, KeysOf(all) \ {<<>>}), Cap)
       /\ Selected = Take(fine_part \o back_part, Cap)
       /\ Take(Selected, Len(fine_part)) = fine_part

\* C9 happens: the fine list held two papers with the same id and papers
\* with an empty key, and the selection was filled up from the coarse list
C9_Witness ==
  /\ pc = "done"
  /\ Cardinality(KeysOf(FineRanked)) < Len(FineRanked)
  /\ <<>> \in KeysOf(FineRanked)
  /\ Len(FirstOfKey(FineRanked, KeysOf(FineRanked) \ {<<>>})) < Len(Selected)
  /\ Len(Selected) = Cap

\* one of the plan's keywords is a case-insensitive substring of title + summary
HasKeyword(p) ==
  \E i \in 1..Len(plan.keywords) :
    Contains(Lower(p.title \o <<" ">> \o p.summary), Lower(Strip(plan.keywords[i])))

\* C10 as stated: every paper of the coarse pool that feeds the fine ranker,
\* and every paper of arxiv_selected_papers, holds one of the plan's keywords
C10_CoarsePoolHoldsKeyword ==
  pc = "done" =>
    /\ \A i \in 1..Len(FineRanked) : HasKeyword(FineRanked[i])
    /\ \A i \in 1..Len(Selected) : HasKeyword(Selected[i])

(***************************************************************************)
(* The plan builder on its own (run, lines 35-70): one call of it for any   *)
(* payload and any settings.                                                *)
(***************************************************************************)
\* arxiv.get("categories") / arxiv.get("keywords"): not a list, an empty
\* list, blank entries only, one entry, more than two entries with blanks
\* and padding among them
ListInputs ==
  {NotAList,
   ListOf(<<>>),
   ListOf(<< <<>>, <<" ", " ">> >>),
   ListOf(<< <<"q", "1">> >>),
   ListOf(<< <<" ">>, <<" ", "q", "1">>, <<>>, <<"q", "2", " ">>, <<"q", "3">> >>)}

\* arxiv.get("max_results")
MaxResultsInputs ==
  {NotAnInt, IntOf(0 - 3), IntOf(0), IntOf(10), IntOf(75), IntOf(300), IntOf(1000)}

\* settings["system"]["final_output_paper_count"]
FinalCountInputs ==
  {NotAnInt, IntOf(0 - 1), IntOf(1), IntOf(5), IntOf(20), IntOf(50), IntOf(51)}

\* settings["system"]["arxiv_fetch_max_results"]
FetchMaxInputs == {NotAnInt, IntOf(0), IntOf(5), IntOf(20), IntOf(300), IntOf(999)}

PlanInputs ==
  [categories : ListInputs,
   keywords : ListInputs,
   max_results : MaxResultsInputs,
   final_output_paper_count : FinalCountInputs,
   arxiv_fetch_max_results : FetchMaxInputs,
   original_input_en : {<<>>},
   original_input : {<<"a", "i">>},
   sentence_transformer_model : {DefaultModel}]

\* run, lines 35-70, for one payload
CallBuildPlan ==
  /\ call = NoCall
  /\ \E payload \in PlanInputs :
       call' = [name |-> "BuildPlan", args |-> payload, result |-> BuildPlan(payload)]
  /\ UNCHANGED <<sessions, clock, cache_file, st_model_cache, runs, pc, net, plan,
                 plan_idx, timeout_idx, relevance_papers, errors, requests, attempt_log,
                 papers, fetch_meta, locals, ctx_data, hist, last_save>>

PlanInit ==
  /\ clock = StartClock
  /\ cache_file = NoFile
  /\ st_model_cache = <<>>
  /\ runs = 0
  /\ pc = "idle"
  /\ net = "down"
  /\ plan = NoPlan
  /\ plan_idx = 1
  /\ timeout_idx = 1
  /\ relevance_papers = <<>>
  /\ errors = <<>>
  /\ requests = <<>>
  /\ attempt_log = <<>>
  /\ papers = <<>>
  /\ fetch_meta = NoMeta
  /\ locals = NoLocals
  /\ ctx_data = EmptyCtx
  /\ hist = NoHist
  /\ last_save = NoSave
  /\ call = NoCall
  /\ sessions = <<>>

PlanNext == CallBuildPlan

PlanSpec == PlanInit /\ [][PlanNext]_vars

(***************************************************************************)
(* Properties of the plan builder (checked under PlanSpec).                *)
(***************************************************************************)
PlanBuilt == call.name = "BuildPlan"

\* C11: whatever the payload holds and whatever the two settings are, the
\* plan has target_count <= coarse_target_count <= fetch_count, with
\* target_count in 1..50, coarse_target_count in target_count..120 and
\* fetch_count in 40..300
C11_PlanRanges ==
  PlanBuilt =>
    LET r == call.result
    IN /\ r.target_count <= r.coarse_target_count
       /\ r.coarse_target_count <= r.fetch_count
       /\ r.target_count \in 1..50
       /\ r.coarse_target_count \in r.target_count..120
       /\ r.fetch_count \in 40..300

\* a payload without a usable max_results or categories, under settings
\* beyond their ranges: every bound of the plan is met at its upper end
C11_Witness ==
  /\ PlanBuilt
  /\ ~call.args.max_results.isint
  /\ ~call.args.categories.islist
  /\ call.args.final_output_paper_count = IntOf(51)
  /\ call.args.arxiv_fetch_max_results = IntOf(999)
  /\ call.result.target_count = 50
  /\ call.result.fetch_count = 300
  /\ call.result.coarse_target_count = 120

\* max(lo, min(hi, x))
Clamp(x, lo, hi) == IF x < lo THEN lo ELSE IF x > hi THEN hi ELSE x

Largest(a, b, c) == IF a >= b /\ a >= c THEN a ELSE IF b >= c THEN b ELSE c

\* a setting as configured: the stored integer, the default when there is
\* none, brought into the setting's range
Configured(value, default, lo, hi) ==
  Clamp(IF value.isint THEN value.val ELSE default, lo, hi)

\* C12: target_count is the configured final_output_paper_count; max_results
\* is the payload's max_results as an integer (the configured
\* arxiv_fetch_max_results when it is none) clamped to target_count..300;
\* fetch_count is max(max_results*4, target_count*12, 80) clamped to 40..300;
\* coarse_target_count is max(max_results, target_count*6, 30) clamped to
\* target_count..120; so max_results 10 under a final count of 5 gives
\* target_count 5, fetch_count >= 80 and coarse_target_count >= 30
C12_PlanFormulas ==
  PlanBuilt =>
    LET a == call.args
        r == call.result
        final == Configured(a.final_output_paper_count, 5, 1, 50)
        fallback == Configured(a.arxiv_fetch_max_results, 20, 5, 300)
        parsed == IF a.max_results.isint THEN a.max_results.val ELSE fallback
    IN /\ r.target_count = final
       /\ r.max_results = Clamp(parsed, final, 300)
       /\ r.fetch_count =
            Clamp(Largest(r.max_results * 4, r.target_count * 12, 80), 40, 300)
       /\ r.coarse_target_count =
            Clamp(Largest(r.max_results, r.target_count * 6, 30), r.target_count, 120)
       /\ (a.max_results = IntOf(10) /\ a.final_output_paper_count = IntOf(5))
            => /\ r.target_count = 5
               /\ r.fetch_count >= 80
               /\ r.coarse_target_count >= 30

\* the example of the claim, and a payload whose max_results is no integer
\* under a configured arxiv_fetch_max_results that the plan then uses
C12_Witness ==
  /\ PlanBuilt
  /\ \/ /\ call.args.max_results = IntOf(10)
        /\ call.args.final_output_paper_count = IntOf(5)
        /\ call.result.max_results = 10
        /\ call.result.fetch_count = 80
        /\ call.result.coarse_target_count = 30
     \/ /\ call.args.max_results = NotAnInt
        /\ call.args.final_output_paper_count = IntOf(20)
        /\ call.args.arxiv_fetch_max_results = IntOf(300)
        /\ call.result.max_results = 300
        /\ call.result.fetch_count = 300
        /\ call.result.coarse_target_count = 120

\* the non-blank entries of a list, stripped, in their order
RECURSIVE NonBlank(_)
NonBlank(items) ==
  IF items = <<>> THEN <<>>
  ELSE LET x == Strip(Head(items))
       IN IF x = <<>> THEN NonBlank(Tail(items)) ELSE <<x>> \o NonBlank(Tail(items))

FirstTwo(xs) == IF Len(xs) <= 2 THEN xs ELSE <<xs[1], xs[2]>>

\* what the plan must hold for a payload value
ExpectedList(value, default) ==
  IF ~value.islist \/ NonBlank(value.items) = <<>> THEN default
  ELSE FirstTwo(NonBlank(value.items))

OneOrTwoNonBlank(xs) ==
  /\ Len(xs) \in 1..2
  /\ \A i \in 1..Len(xs) : xs[i] # <<>> /\ Strip(xs[i]) = xs[i]

\* C13: the plan's categories and keywords each hold one or two non-blank
\* strings: the defaults when the payload value is not a list, is empty or
\* holds only blank entries, and otherwise its first two non-blank entries,
\* stripped, in their order; every input yields a plan
C13_ListsNormalised ==
  PlanBuilt =>
    /\ OneOrTwoNonBlank(call.result.categories)
    /\ OneOrTwoNonBlank(call.result.keywords)
    /\ call.result.categories = ExpectedList(call.args.categories, DefaultCategories)
    /\ call.result.keywords = ExpectedList(call.args.keywords, DefaultKeywords)

\* a list of blank entries replaced by the defaults next to a padded list of
\* three entries cut to its first two
C13_Witness ==
  /\ PlanBuilt
  /\ call.args.categories = ListOf(<< <<>>, <<" ", " ">> >>)
  /\ call.result.categories = DefaultCategories
  /\ Len(call.args.keywords.items) = 5
  /\ call.result.keywords = << <<"q", "1">>, <<"q", "2">> >>

(***************************************************************************)
(* _rank_semantic on its own: calls one after the other, each on a step     *)
(* object of its own (build_steps makes one per pipeline), all sharing the  *)
(* class-level model cache; then what run reads and formats (lines 92-94,   *)
(* 127-128).                                                                *)
(***************************************************************************)
MaxCalls == 4

\* "fine_algorithm" (line 128), as the pieces of the f-string
fine_algorithm(fine_backend, fine_model) ==
  IF fine_model # "" THEN <<fine_backend, " (", fine_model, ")">> ELSE <<fine_backend>>

\* "compare_algorithm" (line 127), as the pieces of the f-string
compare_algorithm(fine_backend, fine_model) ==
  IF fine_model # "" THEN <<"coarse=bm25; fine=", fine_backend, "(", fine_model, ")">>
  ELSE <<"coarse=bm25; fine=", fine_backend>>

\* the candidate pools handed to _rank_semantic: none, two pools as
\* fetched, and a pool as the coarse ranking hands it over, with its
\* scores and with a paper twice
RankPools ==
  {<<>>,
   fetch_arxiv_by_query(<<EntryU, EntryB, EntryA>>),
   fetch_arxiv_by_query(<<EntryA2, EntryE, EntryU>>),
   rank_keyword_overlap(fetch_arxiv_by_query(<<EntryB, EntryA, EntryA>>),
                        <<"g", "p", "t">>)}

\* query_text: blank, or padded words
RankQueries == {<<" ">>, <<" ", "g", "p", "t", " ", "a", "i", " ">>}

\* model_name: the allow-list, a name outside it, no name
RankModelNames == SENTENCE_TRANSFORMER_MODEL_OPTIONS \cup {"unknown-model", ""}

\* how the embedding library behaves in a call: every outcome, and both
\* similarity geometries where the scores are used
RankOutcomes ==
  {[outcome |-> o, fn |-> "flat"] : o \in StOutcomes}
    \cup {[outcome |-> "ok", fn |-> f] : f \in ScoreFns}

\* the key the call found in the model cache, "" when it loaded or never
\* looked
CacheHit(c) ==
  IF /\ c.name = "_rank_semantic"
     /\ c.args.papers # <<>>
     /\ Strip(c.args.query_text) # <<>>
     /\ c.args.outcome # "import_error"
     /\ \E i \in 1..Len(c.args.cache) : c.args.cache[i] = SelectedModel(c.args.model_name)
  THEN SelectedModel(c.args.model_name)
  ELSE ""

\* lines 92-94 on a fresh step object, and the two metadata strings
CallRankSemantic ==
  /\ runs < MaxCalls
  /\ runs' = runs + 1
  /\ \E pool \in RankPools, query \in RankQueries, name \in RankModelNames,
        r \in RankOutcomes :
       \E fine \in {rank_semantic(pool, query, name, st_model_cache, r.outcome, r.fn)} :
         /\ st_model_cache' = fine.cache
         /\ call' = [name |-> "_rank_semantic",
                     args |-> [papers |-> pool, query_text |-> query, model_name |-> name,
                               cache |-> st_model_cache, outcome |-> r.outcome,
                               fn |-> r.fn,
                               hit_before |-> CacheHit(call)],
                     result |-> [ranked |-> fine.ranked,
                                 fine_backend |-> fine.backend,
                                 fine_model |-> fine.model,
                                 fine_algorithm |-> fine_algorithm(fine.backend, fine.model),
                                 compare_algorithm |->
                                   compare_algorithm(fine.backend, fine.model),
                                 cache |-> fine.cache]]
  /\ UNCHANGED <<sessions, clock, cache_file, pc, net, plan, plan_idx, timeout_idx,
                 relevance_papers, errors, requests, attempt_log, papers, fetch_meta,
                 locals, ctx_data, hist, last_save>>

\* the papers the pools handed to _rank_keyword_overlap are made of: two
\* that share a word, one without any token, one with other words
OverlapPapers == fetch_arxiv_by_query(<<EntryA, EntryB, EntryN, EntryU>>)

\* every list of at most MaxPool of these papers, repetitions included
OverlapPools ==
  UNION {[1..n -> {OverlapPapers[i] : i \in 1..Len(OverlapPapers)}] : n \in 0..MaxPool}

\* query_text: blank, without any token, one word, two words
OverlapQueries ==
  {<<" ">>, <<"x">>, <<"b", "e", "r", "t">>, <<" ", "g", "p", "t", " ", "a", "i", " ">>}

\* coarse_ranked = self._rank_keyword_overlap(papers, query_text), line 84
CallRankKeywordOverlap ==
  /\ call = NoCall
  /\ \E pool \in OverlapPools, query \in OverlapQueries :
       call' = [name |-> "_rank_keyword_overlap",
                args |-> [papers |-> AsList(pool), query_text |-> query],
                result |-> rank_keyword_overlap(AsList(pool), query)]
  /\ UNCHANGED <<sessions, clock, cache_file, st_model_cache, runs, pc, net, plan,
                 plan_idx, timeout_idx, relevance_papers, errors, requests, attempt_log,
                 papers, fetch_meta, locals, ctx_data, hist, last_save>>

RankNext == CallRankSemantic \/ CallRankKeywordOverlap

\* the application starts with an empty model cache
RankSpec == PlanInit /\ [][RankNext]_vars

(***************************************************************************)
(* Properties of _rank_semantic (checked under RankSpec).                  *)
(***************************************************************************)
\* the call got past the two early returns
RankedNonEmpty ==
  /\ call.name = "_rank_semantic"
  /\ call.args.papers # <<>>
  /\ Strip(call.args.query_text) # <<>>

\* the model the call asks for is in the cache it finds
ModelCached ==
  \E i \in 1..Len(call.args.cache) :
    call.args.cache[i] = SelectedModel(call.args.model_name)

\* the import, the load or the encoding fails in the call
EmbeddingPathFails ==
  \/ call.args.outcome = "import_error"
  \/ call.args.outcome = "encode_error"
  \/ call.args.outcome = "load_error" /\ ~ModelCached

\* C14: whenever the import, the load or the encoding fails for a non-empty
\* pool and a non-blank query, _rank_semantic returns what
\* _rank_keyword_overlap returns for the same pool and query (and so returns
\* rather than raises)
C14_FallbackIsKeywordRanking ==
  (RankedNonEmpty /\ EmbeddingPathFails) =>
    call.result.ranked = rank_keyword_overlap(call.args.papers, call.args.query_text)

\* a load failure on a cache miss, ranked by BM25 into an order that is not
\* the order of the pool
C14_Witness ==
  /\ RankedNonEmpty
  /\ call.args.outcome = "load_error"
  /\ ~ModelCached
  /\ Len(call.args.cache) = 2
  /\ Len(call.result.ranked) = 3
  /\ call.result.ranked[1].id # call.args.papers[1].id
  /\ call.result.ranked = rank_keyword_overlap(call.args.papers, call.args.query_text)

\* the model object is at hand and the encoding succeeds
LoadAndEncodeSucceed == ~EmbeddingPathFails

\* C15: run exposes the backend "sentence-transformers", with the model that
\* was used, exactly when the import, the load and the encoding all
\* succeeded; in every other call it exposes "bm25" and no model; and
\* fine_algorithm and compare_algorithm are made of exactly these two values
C15_BackendTellsWhatRan ==
  call.name = "_rank_semantic" =>
    LET r == call.result
        embedded == RankedNonEmpty /\ LoadAndEncodeSucceed
    IN /\ r.fine_backend = "sentence-transformers" <=> embedded
       /\ embedded => r.fine_model = SelectedModel(call.args.model_name)
       /\ embedded => r.fine_model \in SENTENCE_TRANSFORMER_MODEL_OPTIONS
       /\ ~embedded => r.fine_backend = "bm25" /\ r.fine_model = ""
       /\ r.fine_algorithm =
            (IF embedded THEN <<"sentence-transformers", " (", r.fine_model, ")">>
             ELSE <<"bm25">>)
       /\ r.compare_algorithm =
            (IF embedded
             THEN <<"coarse=bm25; fine=", "sentence-transformers", "(", r.fine_model, ")">>
             ELSE <<"coarse=bm25; fine=", "bm25">>)

\* a call that finds two models cached and embeds with the default model in
\* place of a name outside the allow-list
C15_Witness ==
  /\ RankedNonEmpty
  /\ call.args.outcome = "ok"
  /\ call.args.model_name = "unknown-model"
  /\ call.result.fine_backend = "sentence-transformers"
  /\ call.result.fine_model = DefaultModel
  /\ call.result.fine_algorithm = <<"sentence-transformers", " (", DefaultModel, ")">>
  /\ call.args.hit_before = ""
  /\ Len(call.args.cache) = 2

\* the key evicted by the call, "" when none was
Evicted ==
  IF RankedNonEmpty /\ call.args.outcome # "import_error" /\ ~ModelCached
     /\ Len(call.args.cache) >= ST_MODEL_CACHE_MAX_SIZE
  THEN call.args.cache[1]
  ELSE ""

\* C16: after any sequence of calls, whatever the model names and whichever
\* loads fail, the model cache holds at most 2 entries; and a call that misses
\* a cache of 2 entries removes the one inserted first, recently used or not,
\* and keeps the other
C16_CacheBoundedOldestEvicted ==
  /\ Len(st_model_cache) <= 2
  /\ \A i, j \in 1..Len(st_model_cache) : st_model_cache[i] = st_model_cache[j] => i = j
  /\ call.name = "_rank_semantic" =>
       /\ st_model_cache = call.result.cache
       /\ (RankedNonEmpty /\ call.args.outcome # "import_error" /\ ~ModelCached
           /\ Len(call.args.cache) = 2) =>
            /\ \A i \in 1..Len(st_model_cache) : st_model_cache[i] # call.args.cache[1]
            /\ st_model_cache[1] = call.args.cache[2]
            /\ Len(st_model_cache) = (IF call.args.outcome = "load_error" THEN 1 ELSE 2)

\* the call before hit the entry inserted first; this call misses and evicts
\* that very entry, keeping the one inserted later
C16_Witness ==
  /\ Evicted # ""
  /\ call.args.hit_before = Evicted
  /\ call.args.outcome = "ok"
  /\ Len(st_model_cache) = 2
  /\ st_model_cache[2] = SelectedModel(call.args.model_name)

(***************************************************************************)
(* Properties of the steps after the fetch step (checked under Spec).      *)
(***************************************************************************)
\* C17: in every run, whatever the comparison returns or raises, the list
\* arxiv_selected_papers that the compare step leaves and the organize step
\* hands to the report holds at most target_count papers
C17_HandedListWithinTarget ==
  /\ pc = "compared" => Len(ctx_data.arxiv_selected_papers) <= plan.target_count
  /\ pc = "organized" => Len(call.args.selected_papers) <= plan.target_count

\* the fetch step has returned to the worker
FetchStepReturned == pc \in {"done", "caught"}

\* C18: the fetch step returns to the worker, through its last line or
\* through its except clause, with arxiv_selected_papers a list and
\* arxiv_selected_count set; when it returns through its except clause,
\* init_errors["arxiv_fetch"] is the error text, arxiv_selected_papers is []
\* and arxiv_selected_count is 0, and the worker goes on to run the compare
\* step and then the organize step, which find these values
C18_FetchStepAlwaysReturns ==
  /\ FetchStepReturned =>
       /\ {"arxiv_selected_papers", "arxiv_selected_count"} \subseteq ctx_data.keys
       /\ ctx_data.arxiv_selected_count = Len(ctx_data.arxiv_selected_papers)
       /\ ENABLED CompareAbstracts
  /\ pc = "caught" =>
       /\ "init_errors" \in ctx_data.keys
       /\ ctx_data.init_errors.arxiv_fetch = ScoreError
       /\ ctx_data.arxiv_selected_papers = <<>>
       /\ ctx_data.arxiv_selected_count = 0
  /\ pc = "compared" => ENABLED OrganizeSelected
  /\ (pc \in {"compared", "organized"} /\ call.args.after = "caught") =>
       /\ ctx_data.init_errors.arxiv_fetch = ScoreError
       /\ ctx_data.arxiv_selected_papers = <<>>
       /\ ctx_data.arxiv_selected_count = 0

\* a run that fell back to the cache, failed while scoring the embeddings,
\* and whose compare and organize steps have run all the same
C18_Witness ==
  /\ pc = "organized"
  /\ call.args.after = "caught"
  /\ fetch_meta.used_cache
  /\ papers # <<>>
  /\ ctx_data.init_errors.arxiv_fetch = ScoreError
  /\ ctx_data.arxiv_selected_papers = <<>>
  /\ ctx_data.arxiv_compare_result = "result"
  /\ ctx_data.arxiv_organized_report = "report"

(***************************************************************************)
(* The cache is advisory (checked under Spec).                             *)
(***************************************************************************)
\* the run called _save_cache and the call wrote nothing
SaveFailed == hist.save_calls = 1 /\ hist.writes = 0

\* the run called _load_cache on a file that is missing, unparseable or no
\* mapping
LoadedUnusable ==
  hist.load_calls = 1 /\ hist.file_before.kind \in {"missing", "garbage", "nonmapping"}

\* C19: a run whose _save_cache fails goes on as a run whose _save_cache
\* succeeds: with the live papers, the source and the errors of the fetch,
\* no cache flag, no error recorded, and the selection and counts computed
\* from the live papers; and _load_cache on a file that is missing,
\* unparseable or not a mapping returns [] and the run goes on without papers
C19_CacheNeverFatal ==
  /\ (PastCache /\ hist.save_calls = 1) =>
       /\ papers = hist.live
       /\ fetch_meta = [source |-> CurPlan.label, errors |-> errors, used_cache |-> FALSE]
  /\ (pc = "done" /\ hist.save_calls = 1) =>
       /\ "init_errors" \notin ctx_data.keys
       /\ ctx_data.init_errors.arxiv_fetch = NoEntry
       /\ ctx_data.arxiv_fetch_config.fetch_source = CurPlan.label
       /\ ctx_data.arxiv_fetch_config.fetch_errors = errors
       /\ ctx_data.arxiv_total_fetched = Len(hist.live)
       /\ ctx_data.arxiv_keyword_filtered = Len(keyword_filter(hist.live, plan.keywords))
       /\ locals.coarse_ranked = rank_keyword_overlap(hist.live, plan.query_text)
       /\ ctx_data.arxiv_selected_papers = locals.selected
       /\ ctx_data.arxiv_selected_count = Len(locals.selected)
  /\ (PastCache /\ LoadedUnusable) =>
       /\ hist.loaded = <<>>
       /\ papers = <<>>
       /\ ~fetch_meta.used_cache
  /\ (pc = "done" /\ LoadedUnusable) =>
       /\ ctx_data.arxiv_selected_papers = <<>>
       /\ ctx_data.arxiv_selected_count = 0
       /\ ctx_data.init_errors.arxiv_fetch = NoEntry

\* a second run that found a file that is no mapping, whose write broke off
\* and left an unparseable file, and that finished with a selection
C19_Witness ==
  /\ runs = 2
  /\ pc = "done"
  /\ SaveFailed
  /\ hist.file_before = NonMappingFile
  /\ cache_file = GarbageFile
  /\ ctx_data.arxiv_selected_papers # <<>>
  /\ ctx_data.arxiv_fetch_config.fetch_errors # <<>>

(***************************************************************************)
(* The main window: MainWindow.on_thread_created starts a worker thread    *)
(* for every new session that is not a zh2en session (start_init_pipeline),*)
(* arms a single-shot timer, and is told of the end of the worker by       *)
(* queued signals.                                                         *)
(***************************************************************************)
MaxSessions == 3

\* the features of the sidebar (main_window.py, lines 67-68)
Features == {"arxiv", "zh2en"}

\* the steps of build_steps
StepCount == 6

\* the steps whose exceptions reach the worker: StepCreateWorkspace and
\* StepSubmitPrompt
RaisingSteps == {2, 3}

\* everything but the sessions
PipelineVars == <<clock, cache_file, st_model_cache, runs, pc, net, plan, plan_idx,
                  timeout_idx, relevance_papers, errors, requests, attempt_log, papers,
                  fetch_meta, locals, ctx_data, hist, last_save, call>>

\* on_thread_created, lines 258-281: a zh2en session has no init pipeline
Zh2EnSession ==
  [feature |-> "zh2en", init_state |-> "done", init_meta |-> "unset",
   thread |-> "none", step |-> 0, signal |-> "none", timer |-> "none",
   timeout_messages |-> 0, executed |-> <<>>, raised |-> 0, emitted |-> <<>>]

\* on_thread_created, lines 283-397: init_state "running", a started worker
\* thread, an armed timer
PipelineSession(feature) ==
  [feature |-> feature, init_state |-> "running", init_meta |-> "unset",
   thread |-> "running", step |-> 0, signal |-> "none", timer |-> "armed",
   timeout_messages |-> 0, executed |-> <<>>, raised |-> 0, emitted |-> <<>>]

\* MainWindow.on_thread_created: the sidebar emits thread_created whenever
\* the user adds a conversation
on_thread_created ==
  /\ Len(sessions) < MaxSessions
  /\ \E feature \in Features :
       sessions' = Append(sessions, IF feature = "zh2en" THEN Zh2EnSession
                                    ELSE PipelineSession(feature))
  /\ UNCHANGED PipelineVars

\* a worker whose loop goes on after a step has raised (no `return` after
\* failed.emit); the properties of the terminal signal must tell it from
\* WorkerRunsStep
WorkerRunsStepGoingOn ==
  /\ \E i \in 1..Len(sessions) :
       /\ sessions[i].thread = "running"
       /\ \E raises \in {TRUE, FALSE} :
            /\ raises => (sessions[i].step + 1) \in RaisingSteps
            /\ sessions' =
                 [sessions EXCEPT
                    ![i] = IF raises /\ @.step + 1 < StepCount
                           THEN [@ EXCEPT !.step = @ + 1, !.signal = "failed",
                                          !.executed = Append(@, sessions[i].step + 1),
                                          !.raised = sessions[i].step + 1,
                                          !.emitted = Append(@, "failed")]
                           ELSE IF @.step + 1 = StepCount
                           THEN [@ EXCEPT !.step = StepCount, !.signal = "finished",
                                          !.thread = "quit",
                                          !.executed = Append(@, sessions[i].step + 1),
                                          !.emitted = Append(@, "finished")]
                           ELSE [@ EXCEPT !.step = @ + 1,
                                          !.executed = Append(@, sessions[i].step + 1)]]
  /\ UNCHANGED PipelineVars

\* InitPipelineWorker.run, one step of the loop of lines 45-59: the step
\* returns, or raises and the worker emits failed and returns; after the
\* last step the worker emits finished; either signal makes the thread quit.
\* executed lists the steps whose run was called, raised is the step that
\* raised (0: none), emitted lists the terminal signals the worker emitted
WorkerRunsStep ==
  /\ \E i \in 1..Len(sessions) :
       /\ sessions[i].thread = "running"
       /\ \E raises \in {TRUE, FALSE} :
            /\ raises => (sessions[i].step + 1) \in RaisingSteps
            /\ sessions' =
                 [sessions EXCEPT
                    ![i] = IF raises
                           THEN [@ EXCEPT !.signal = "failed", !.thread = "quit",
                                          !.executed = Append(@, sessions[i].step + 1),
                                          !.raised = sessions[i].step + 1,
                                          !.emitted = Append(@, "failed")]
                           ELSE IF @.step + 1 = StepCount
                           THEN [@ EXCEPT !.step = StepCount, !.signal = "finished",
                                          !.thread = "quit",
                                          !.executed = Append(@, sessions[i].step + 1),
                                          !.emitted = Append(@, "finished")]
                           ELSE [@ EXCEPT !.step = @ + 1,
                                          !.executed = Append(@, sessions[i].step + 1)]]
  /\ UNCHANGED PipelineVars

\* _on_ok (lines 308-361), run on the main thread when the queued finished
\* signal is delivered: a late result is ignored (lines 309-313), otherwise
\* init_meta is stored and init_state becomes "done" (lines 318-330)
on_ok ==
  /\ \E i \in 1..Len(sessions) :
       /\ sessions[i].signal = "finished"
       /\ sessions' =
            [sessions EXCEPT
               ![i] = IF @.init_state = "timeout"
                      THEN [@ EXCEPT !.signal = "delivered"]
                      ELSE [@ EXCEPT !.signal = "delivered", !.init_meta = "set",
                                     !.init_state = "done"]]
  /\ UNCHANGED PipelineVars

\* _on_err (lines 363-367): init_state becomes "failed" whatever it was
on_err ==
  /\ \E i \in 1..Len(sessions) :
       /\ sessions[i].signal = "failed"
       /\ sessions' = [sessions EXCEPT ![i] = [@ EXCEPT !.signal = "delivered",
                                                        !.init_state = "failed"]]
  /\ UNCHANGED PipelineVars

\* a timer callback that does not look at init_state; the property of a
\* timer that fires after the end of the pipeline must tell it from
\* on_init_timeout
on_init_timeout_unconditional ==
  /\ \E i \in 1..Len(sessions) :
       /\ sessions[i].timer = "armed"
       /\ sessions' =
            [sessions EXCEPT
               ![i] = [@ EXCEPT !.timer = "fired", !.init_state = "timeout",
                                !.timeout_messages = @ + 1]]
  /\ UNCHANGED PipelineVars

\* _on_init_timeout (lines 369-379), fired once by QTimer.singleShot: while
\* init_state is "running" it sets "timeout" and adds the timeout message
\* (timeout_messages counts them)
on_init_timeout ==
  /\ \E i \in 1..Len(sessions) :
       /\ sessions[i].timer = "armed"
       /\ sessions' =
            [sessions EXCEPT
               ![i] = IF @.init_state = "running"
                      THEN [@ EXCEPT !.timer = "fired", !.init_state = "timeout",
                                     !.timeout_messages = @ + 1]
                      ELSE [@ EXCEPT !.timer = "fired"]]
  /\ UNCHANGED PipelineVars

AppNext == on_thread_created \/ WorkerRunsStep \/ on_ok \/ on_err \/ on_init_timeout

\* the application from its start: no session yet
AppSpec == PlanInit /\ [][AppNext]_vars

\* the same, with worker threads that are scheduled and steps that
\* terminate: a worker that can take its next step takes it in the end
AppLiveSpec == PlanInit /\ [][AppNext]_vars /\ WF_vars(WorkerRunsStep)

(***************************************************************************)
(* Properties of the main window (checked under AppSpec).                  *)
(***************************************************************************)
\* the sessions whose init pipeline is executing
Executing == {i \in 1..Len(sessions) : sessions[i].thread = "running"}

\* C20: in every reachable state at most one init pipeline is executing,
\* also after a timeout has given up on a pipeline that is still running
\* and the user has created a new arxiv session
C20_OnePipelineAtATime == Cardinality(Executing) <= 1

\* C21: a session whose init_state is "timeout" keeps that state and its
\* init_meta through every later step, the delivery of the abandoned
\* pipeline's finished signal and of its failed signal included
C21_LateCompletionsIgnored ==
  [][\A i \in 1..Len(sessions) :
       sessions[i].init_state = "timeout"
         => /\ sessions'[i].init_state = "timeout"
            /\ sessions'[i].init_meta = sessions[i].init_meta]_vars

(***************************************************************************)
(* The sub-requests and the merge of one attempt (checked under FetchSpec).*)
(***************************************************************************)
\* the requests of the attempt (label, timeout_sec), in the order sent
RequestsOf(label, timeout_sec) ==
  SelectSeq(requests, LAMBDA r : r.label = label /\ r.timeout = timeout_sec)

\* the count of the plan a request belongs to
CountOf(r) ==
  plan.plans[CHOOSE i \in 1..Len(plan.plans) : plan.plans[i].label = r.label].count

\* the attempts that were started
Attempts == {<<r.label, r.timeout>> : r \in {requests[i] : i \in 1..Len(requests)}}

\* the attempts that got as far as the merge
Merged == {<<a.label, a.timeout>> :
             a \in {attempt_log[i] : i \in 1..Len(attempt_log)} \ {a \in
                   {attempt_log[i] : i \in 1..Len(attempt_log)} : a.merged < 0}}

\* the papers of list whose key is not empty and occurs at no earlier place
FirstOfEachKey(list) ==
  LET key == AsList([i \in 1..Len(list) |-> IdentityKey(list[i])])
      at == SelectSeq(AsList([i \in 1..Len(list) |-> i]),
                      LAMBDA i : key[i] # <<>> /\ \A j \in 1..(i - 1) : key[j] # key[i])
  IN AsList([n \in 1..Len(at) |-> list[at[n]]])

\* the merged list is the relevance papers followed by the recency papers,
\* each kept when its key is not empty and not already present; no key
\* occurs twice and no key is empty
MergeIsUnion ==
  call.name = "_merge_unique_papers" =>
    LET key == AsList([i \in 1..Len(call.result) |-> IdentityKey(call.result[i])])
        first == FirstOfEachKey(call.args[1])
    IN /\ call.result = FirstOfEachKey(call.args[1] \o call.args[2])
       /\ \A i, j \in 1..Len(key) : i # j => key[i] # key[j]
       /\ \A i \in 1..Len(key) : key[i] # <<>>
       /\ Take(call.result, Len(first)) = first

\* C22 as stated: every started attempt has sent exactly two sub-requests
\* (or is at its second), the first relevance-sorted of size floor(0.7 *
\* count), the second recency-sorted of size count minus that, and the
\* merged list is the union without repeated or empty keys
C22_TwoRequestsOfFloorSize ==
  /\ \A a \in Attempts :
       LET rs == RequestsOf(a[1], a[2])
       IN /\ Len(rs) = 2 \/ (Len(rs) = 1 /\ pc = "recency" /\ a = <<CurPlan.label, CurTimeout>>)
          /\ rs[1].sort_by = "relevance"
          /\ rs[1].max_results = (7 * CountOf(rs[1])) \div 10
          /\ Len(rs) = 2 =>
               /\ rs[2].sort_by = "submittedDate"
               /\ rs[2].query = rs[1].query
               /\ rs[2].max_results = CountOf(rs[2]) - (7 * CountOf(rs[2])) \div 10
  /\ MergeIsUnion

\* int(count * 0.7) as the double product gives it: floor(0.7 * count) but
\* for the counts whose product falls just below the integer
IntOfProduct(count) ==
  IF count \in {90, 170, 180} THEN (7 * count) \div 10 - 1 ELSE (7 * count) \div 10

\* C22 (amended): every started attempt has sent a relevance-sorted
\* sub-request first and at most one more, recency-sorted, for the same
\* query; an attempt that reached the merge has sent both; the sizes are
\* int(count * 0.7) and count minus that, which sum to count; the merged
\* list is the union without repeated or empty keys
C22_RelevanceThenRecency ==
  /\ \A a \in Attempts :
       LET rs == RequestsOf(a[1], a[2])
       IN /\ Len(rs) \in {1, 2}
          /\ a \in Merged => Len(rs) = 2
          /\ rs[1].sort_by = "relevance"
          /\ rs[1].max_results = IntOfProduct(CountOf(rs[1]))
          /\ Len(rs) = 2 =>
               /\ rs[2].sort_by = "submittedDate"
               /\ rs[2].query = rs[1].query
               /\ rs[2].max_results = CountOf(rs[2]) - IntOfProduct(CountOf(rs[2]))
               /\ rs[1].max_results + rs[2].max_results = CountOf(rs[2])
  /\ MergeIsUnion

\* an attempt for count 180 sent 125 + 55 and merged two overlapping
\* results, one of them with a paper without key, after an attempt that
\* ended at its relevance sub-request
C22_Witness ==
  /\ call.name = "_merge_unique_papers"
  /\ plan.fetch_count = 180
  /\ Len(requests) = 3
  /\ requests[2].max_results = 125
  /\ requests[3].max_results = 55
  /\ Len(call.args[1]) = 2
  /\ Len(call.args[2]) = 3
  /\ Len(call.result) = 3

(***************************************************************************)
(* _keyword_filter called on its own, and on its own output.               *)
(***************************************************************************)
\* the papers the pools are made of: upper-case and lower-case titles, a
\* paper with an empty title, a paper with an empty summary
FilterPapers == fetch_arxiv_by_query(<<EntryA, EntryB, EntryA2, EntryE>>)

\* every list of at most MaxPool of these papers, repetitions included
FilterPools ==
  UNION {[1..n -> {FilterPapers[i] : i \in 1..Len(FilterPapers)}] : n \in 0..MaxPool}

\* keywords: none, blank only, padded upper case, two keywords, a keyword
\* lying across the space between title and summary, one found nowhere
FilterKeywords ==
  {<<>>,
   << <<" ">> >>,
   << <<" ", "G", "P", "T", " ">>, <<" ">> >>,
   << <<"b", "e", "r", "t">>, <<"T", "5">> >>,
   << <<"t", " ", "a">> >>,
   << <<"z">> >>}

\* filtered = self._keyword_filter(papers, keywords), line 82
CallKeywordFilter ==
  /\ call = NoCall
  /\ \E pool \in FilterPools, keywords \in FilterKeywords :
       call' = [name |-> "_keyword_filter",
                args |-> [papers |-> AsList(pool), keywords |-> keywords,
                          again |-> FALSE, before |-> AsList(pool)],
                result |-> keyword_filter(AsList(pool), keywords)]
  /\ UNCHANGED <<sessions, clock, cache_file, st_model_cache, runs, pc, net, plan,
                 plan_idx, timeout_idx, relevance_papers, errors, requests, attempt_log,
                 papers, fetch_meta, locals, ctx_data, hist, last_save>>

\* the filter applied to what it returned, with the same keywords
CallKeywordFilterAgain ==
  /\ call.name = "_keyword_filter"
  /\ ~call.args.again
  /\ call' = [name |-> "_keyword_filter",
              args |-> [papers |-> call.result, keywords |-> call.args.keywords,
                        again |-> TRUE, before |-> call.args.papers],
              result |-> keyword_filter(call.result, call.args.keywords)]
  /\ UNCHANGED <<sessions, clock, cache_file, st_model_cache, runs, pc, net, plan,
                 plan_idx, timeout_idx, relevance_papers, errors, requests, attempt_log,
                 papers, fetch_meta, locals, ctx_data, hist, last_save>>

FilterNext == CallKeywordFilter \/ CallKeywordFilterAgain

FilterSpec == PlanInit /\ [][FilterNext]_vars

(***************************************************************************)
(* Properties of _keyword_filter (checked under FilterSpec).               *)
(***************************************************************************)
\* the keywords that are not blank
Meaningful(keywords) == SelectSeq(keywords, LAMBDA k : Strip(k) # <<>>)

\* title + " " + summary of p holds keyword k, whatever the case of the
\* letters and the padding of k
Mentions(p, k) == Contains(Lower(p.title \o <<" ">> \o p.summary), Lower(Strip(k)))

\* the papers of list that mention some meaningful keyword, in list order
Mentioning(list, keywords) ==
  LET ks == Meaningful(keywords)
  IN SelectSeq(list, LAMBDA p : \E i \in 1..Len(ks) : Mentions(p, ks[i]))

\* C23: the filter returns the papers that hold some keyword in title +
\* summary, case-insensitively, in their input order; without a non-blank
\* keyword it returns its input; applied to its own output with the same
\* keywords it returns that output
C23_FilterIdempotentSubsequence ==
  call.name = "_keyword_filter" =>
    /\ Meaningful(call.args.keywords) # <<>>
         => call.result = Mentioning(call.args.papers, call.args.keywords)
    /\ Meaningful(call.args.keywords) = <<>> => call.result = call.args.papers
    /\ call.args.again => call.result = call.args.papers

\* the second filtering of a pool of three of which the first filtering,
\* for the padded upper-case keyword, kept two different papers
C23_Witness ==
  /\ call.name = "_keyword_filter"
  /\ call.args.again
  /\ call.args.keywords = << <<" ", "G", "P", "T", " ">>, <<" ">> >>
  /\ Len(call.args.before) = 3
  /\ Len(call.args.papers) = 2
  /\ call.args.papers[1] # call.args.papers[2]
  /\ call.result = call.args.papers

(***************************************************************************)
(* Properties of _rank_keyword_overlap (checked under RankSpec).           *)
(***************************************************************************)
\* the ranker attached scores to what it returned
OverlapScored ==
  /\ call.name = "_rank_keyword_overlap"
  /\ \A j \in 1..Len(call.result) : "semantic_score" \in DOMAIN call.result[j]

\* a returned item without the score the ranker attached
Bare(item) == [k \in DOMAIN item \ {"semantic_score"} |-> item[k]]

\* the score the call gave to paper p
ScoreOf(p) ==
  call.result[CHOOSE j \in 1..Len(call.result) : Bare(call.result[j]) = p].semantic_score

\* the returned items of score v without their scores / the papers handed
\* in that got score v, both in their order
ReturnedWith(v) ==
  LET tied == SelectSeq(call.result, LAMBDA x : x.semantic_score = v)
  IN AsList([j \in 1..Len(tied) |-> Bare(tied[j])])

HandedWith(v) == SelectSeq(call.args.papers, LAMBDA p : ScoreOf(p) = v)

\* title + " " + summary of p yields no token
Tokenless(p) == tokenize_for_overlap(p.title \o <<" ">> \o p.summary) = <<>>

\* C24: identical papers receive equal scores, the output is in
\* non-increasing score order with the papers of one score in their input
\* order, so two copies of a paper that are adjacent in the input are
\* adjacent in the output, for every query
C24_DuplicatesStayAdjacent ==
  call.name = "_rank_keyword_overlap" =>
    /\ OverlapScored =>
         /\ \A i \in 1..Len(call.args.papers) :
              \E j \in 1..Len(call.result) : Bare(call.result[j]) = call.args.papers[i]
         /\ \A j, k \in 1..Len(call.result) :
              /\ Bare(call.result[j]) = Bare(call.result[k])
                   => call.result[j].semantic_score = call.result[k].semantic_score
              /\ j < k => call.result[j].semantic_score >= call.result[k].semantic_score
         /\ \A j \in 1..Len(call.result) :
              ReturnedWith(call.result[j].semantic_score)
                = HandedWith(call.result[j].semantic_score)
    /\ ~OverlapScored => call.result = call.args.papers
    /\ \A i \in 1..(Len(call.args.papers) - 1) :
         call.args.papers[i] = call.args.papers[i + 1]
           => \E j \in 1..(Len(call.result) - 1) :
                /\ Bare(call.result[j]) = call.args.papers[i]
                /\ Bare(call.result[j + 1]) = call.args.papers[i]

\* the pool [A, A, B] ranked for a query that puts B first: the two copies
\* of A follow it, side by side
C24_Witness ==
  /\ OverlapScored
  /\ Len(call.args.papers) = 3
  /\ call.args.papers[1] = call.args.papers[2]
  /\ call.args.papers[1] # call.args.papers[3]
  /\ Bare(call.result[1]) = call.args.papers[3]
  /\ Bare(call.result[2]) = call.args.papers[1]
  /\ Bare(call.result[3]) = call.args.papers[1]

\* C25: a paper whose title + summary yields no token gets the score 0, no
\* paper gets a negative score, a tokenless paper comes after every paper
\* of positive score, and the ranking of a pool with such papers returns
\* every paper of the pool
C25_TokenlessScoresZeroAndLast ==
  OverlapScored =>
    /\ Len(call.result) = Len(call.args.papers)
    /\ \A j \in 1..Len(call.result) :
         /\ call.result[j].semantic_score >= 0
         /\ Tokenless(call.result[j]) => call.result[j].semantic_score = 0
         /\ Tokenless(call.result[j]) =>
              \A k \in 1..Len(call.result) :
                call.result[k].semantic_score > 0 => k < j

\* a pool that starts with a tokenless paper, ranked for a query another
\* paper answers: the tokenless paper is last, with score 0
C25_Witness ==
  /\ OverlapScored
  /\ Len(call.args.papers) = 3
  /\ Tokenless(call.args.papers[1])
  /\ call.result[1].semantic_score > 0
  /\ Bare(call.result[3]) = call.args.papers[1]
  /\ call.result[3].semantic_score = 0

(***************************************************************************)
(* The two queries of _fetch_arxiv_resilient (checked under FetchSpec).    *)
(***************************************************************************)
\* cat:c for one category, cat:c1 OR cat:c2 for two
CategoryGroup(cs) ==
  IF Len(cs) = 1 THEN <<"c", "a", "t", ":">> \o cs[1]
  ELSE <<"c", "a", "t", ":">> \o cs[1] \o <<" ", "O", "R", " ", "c", "a", "t", ":">> \o cs[2]

\* all:"k" for one keyword, all:"k1" OR all:"k2" for two
KeywordGroup(ks) ==
  IF Len(ks) = 1 THEN <<"a", "l", "l", ":", "\"">> \o ks[1] \o <<"\"">>
  ELSE <<"a", "l", "l", ":", "\"">> \o ks[1] \o <<"\"", " ", "O", "R", " ">>
         \o <<"a", "l", "l", ":", "\"">> \o ks[2] \o <<"\"">>

\* (categories) AND (keywords)
BothGroups(cs, ks) ==
  <<"(">> \o CategoryGroup(cs) \o <<")", " ", "A", "N", "D", " ", "(">>
    \o KeywordGroup(ks) \o <<")">>

\* the three strict attempts are over and none of them won
StrictFailed ==
  /\ Len(attempt_log) >= 3
  /\ \A k \in 1..3 : attempt_log[k].label = "strict_2c2k" /\ attempt_log[k].merged <= 0

\* C26: the strict query is all the categories of the plan (one or two)
\* OR-joined AND all its keywords (one or two) OR-joined, the fallback
\* query is the first category AND the first keyword, every sub-request
\* carries the query of its plan, no query is blank, and once the three
\* strict attempts have failed the fallback query is tried before the fetch
\* gives up
C26_StrictAndFallbackQueries ==
  /\ Len(plan.categories) \in {1, 2}
  /\ Len(plan.keywords) \in {1, 2}
  /\ plan.plans[1].label = "strict_2c2k"
  /\ plan.plans[1].query = BothGroups(plan.categories, plan.keywords)
  /\ plan.plans[2].label = "fallback_1c1k"
  /\ plan.plans[2].query = BothGroups(<<plan.categories[1]>>, <<plan.keywords[1]>>)
  /\ \A i \in 1..2 : Strip(plan.plans[i].query) # <<>>
  /\ \A i \in 1..Len(requests) :
       requests[i].query = IF requests[i].label = "strict_2c2k" THEN plan.plans[1].query
                           ELSE plan.plans[2].query
  /\ (StrictFailed /\ pc = "relevance") => plan_idx = 2
  /\ (StrictFailed /\ pc = "fetched") =>
       \E i \in 1..Len(requests) : requests[i].label = "fallback_1c1k"

\* a plan of two keywords whose strict attempts failed: the sub-request
\* being answered carries the shorter fallback query
C26_Witness ==
  /\ StrictFailed
  /\ Len(plan.keywords) = 2
  /\ pc = "recency"
  /\ requests[Len(requests)].label = "fallback_1c1k"
  /\ requests[Len(requests)].query = BothGroups(plan.categories, <<plan.keywords[1]>>)
  /\ requests[Len(requests)].query # requests[1].query

(***************************************************************************)
(* paperscout.config.ui_state.remove_legacy_default_threads.  A string is  *)
(* the sequence of its characters, a CJK character the name of its code    *)
(* point; a thread is [id, name] or an entry that is no mapping; a feature *)
(* is [threads, active_thread_id] or no mapping; settings["ui"]["features"]*)
(* is the sequence of its values or no mapping.                            *)
(***************************************************************************)
LEGACY_DEFAULT_THREAD_NAMES == {<<"u9ed8", "u8ba4", "u5bf9", "u8bdd">>}

\* a key the mapping does not have
Missing == <<NoEntry>>

\* str(x or "").strip() of a stored value; a missing key reads as ""
Stored(x) == IF x = Missing THEN <<>> ELSE Strip(x)

\* a cleanup that keeps the mapping entries only; the thread list
\* properties must tell it from KeptThreads
KeptThreadsMappingsOnly(threads) ==
  SelectSeq(threads, LAMBDA t : IsDict(t) /\ Stored(t.name) \notin LEGACY_DEFAULT_THREAD_NAMES)

\* lines 98-109: kept_threads
KeptThreads(threads) ==
  SelectSeq(threads,
            LAMBDA t : ~IsDict(t) \/ Stored(t.name) \notin LEGACY_DEFAULT_THREAD_NAMES)

\* lines 115-119: valid_ids
ValidIds(kept_threads) ==
  {Stored(kept_threads[i].id) : i \in {j \in 1..Len(kept_threads) : IsDict(kept_threads[j])}}

\* a repair that takes the id of the first kept mapping, empty or not; the
\* active id properties must tell it from FirstValidId
FirstValidIdOfAnyMapping(kept_threads) ==
  LET at == {i \in 1..Len(kept_threads) : IsDict(kept_threads[i])}
  IN IF at = {} THEN <<>>
     ELSE Stored(kept_threads[CHOOSE i \in at : \A j \in at : i <= j].id)

\* lines 120-127: first_valid_id
FirstValidId(kept_threads) ==
  LET at == {i \in 1..Len(kept_threads) :
               IsDict(kept_threads[i]) /\ Stored(kept_threads[i].id) # <<>>}
  IN IF at = {} THEN <<>>
     ELSE Stored(kept_threads[CHOOSE i \in at : \A j \in at : i <= j].id)

\* lines 129-134: new_active
NewActive(active_id, kept_threads) ==
  IF ValidIds(kept_threads) = {} THEN <<>>
  ELSE IF active_id = <<>> \/ active_id \notin ValidIds(kept_threads)
  THEN FirstValidId(kept_threads)
  ELSE active_id

\* a cleanup that reports a change for every feature it looked at; the
\* return value properties must tell it from CleanFeature
CleanFeatureAlwaysChanged(f) ==
  IF ~IsDict(f) THEN [feature |-> f, changed |-> FALSE]
  ELSE IF ~f.threads.islist THEN [feature |-> f, changed |-> FALSE]
  ELSE LET kept_threads == KeptThreads(f.threads.items)
           new_active == NewActive(Stored(f.active_thread_id), kept_threads)
       IN [feature |-> [threads |-> ListOf(kept_threads), active_thread_id |-> new_active],
           changed |-> TRUE]

\* lines 89-138: the body of `for f in features.values()`, giving the
\* feature as the body leaves it and whether the body set changed
CleanFeature(f) ==
  IF ~IsDict(f) THEN [feature |-> f, changed |-> FALSE]
  ELSE IF ~f.threads.islist THEN [feature |-> f, changed |-> FALSE]
  ELSE LET threads == f.threads.items
           active_id == Stored(f.active_thread_id)
           kept_threads == KeptThreads(threads)
           removed_any == Len(kept_threads) # Len(threads)
           new_active == NewActive(active_id, kept_threads)
       IN [feature |->
             [threads |-> IF removed_any THEN ListOf(kept_threads) ELSE f.threads,
              active_thread_id |-> IF new_active # active_id THEN new_active
                                   ELSE f.active_thread_id],
           changed |-> removed_any \/ new_active # active_id]

\* remove_legacy_default_threads: the settings as the call leaves them and
\* the value it returns
remove_legacy_default_threads(settings) ==
  IF ~settings.features.islist THEN [settings |-> settings, changed |-> FALSE]
  ELSE LET fs == settings.features.items
           done == AsList([i \in 1..Len(fs) |-> CleanFeature(fs[i])])
       IN [settings |-> [features |-> ListOf(AsList([i \in 1..Len(fs) |-> done[i].feature]))],
           changed |-> \E i \in 1..Len(fs) : done[i].changed]

(***************************************************************************)
(* The settings handed to remove_legacy_default_threads.                   *)
(***************************************************************************)
ThreadLegacy == [id |-> <<"t", "1">>, name |-> <<"u9ed8", "u8ba4", "u5bf9", "u8bdd">>]
ThreadLegacyPadded ==
  [id |-> <<"t", "2">>, name |-> <<" ", "u9ed8", "u8ba4", "u5bf9", "u8bdd", " ">>]
ThreadReal == [id |-> <<"t", "3">>, name |-> <<"u9ed8", "u8ba4">>]
ThreadNoId == [id |-> <<>>, name |-> <<"r", "e", "a", "l">>]

\* the entries of a thread list: the four threads and an entry that is no
\* mapping
ThreadItems == {ThreadLegacy, ThreadLegacyPadded, ThreadReal, ThreadNoId, NonDict}

ThreadLists == UNION {[1..n -> ThreadItems] : n \in 0..MaxThreads}

\* active_thread_id: missing, empty, the id of each thread with an id, a
\* padded id, an id no thread has
ActiveIds ==
  {Missing, <<>>, <<"t", "1">>, <<"t", "2">>, <<"t", "3">>, <<" ", "t", "3">>, <<"z">>}

\* the other features of the settings: one that is no mapping, one whose
\* threads are no list, one with nothing to clean, one with a placeholder
OtherFeatures ==
  {NonDict,
   [threads |-> NotAList, active_thread_id |-> <<"t", "1">>],
   [threads |-> ListOf(<<ThreadReal>>), active_thread_id |-> <<"t", "3">>],
   [threads |-> ListOf(<<ThreadLegacy>>), active_thread_id |-> Missing]}

SettingsInputs ==
  {[features |-> NotAList]}
    \cup {[features |-> ListOf(<<[threads |-> ListOf(AsList(ts)), active_thread_id |-> a]>>
                                 \o rest)] :
            ts \in ThreadLists, a \in ActiveIds,
            rest \in {<<>>} \cup {<<g>> : g \in OtherFeatures}}

\* remove_legacy_default_threads(self.settings), main_window.py line 37
CallRemoveLegacy ==
  /\ call = NoCall
  /\ \E settings \in SettingsInputs :
       call' = [name |-> "remove_legacy_default_threads",
                args |-> [settings |-> settings, again |-> FALSE, before |-> settings],
                result |-> remove_legacy_default_threads(settings)]
  /\ UNCHANGED <<sessions, clock, cache_file, st_model_cache, runs, pc, net, plan,
                 plan_idx, timeout_idx, relevance_papers, errors, requests, attempt_log,
                 papers, fetch_meta, locals, ctx_data, hist, last_save>>

\* a second call on the settings the first call left
CallRemoveLegacyAgain ==
  /\ call.name = "remove_legacy_default_threads"
  /\ ~call.args.again
  /\ call' = [name |-> "remove_legacy_default_threads",
              args |-> [settings |-> call.result.settings, again |-> TRUE,
                        before |-> call.args.settings],
              result |-> remove_legacy_default_threads(call.result.settings)]
  /\ UNCHANGED <<sessions, clock, cache_file, st_model_cache, runs, pc, net, plan,
                 plan_idx, timeout_idx, relevance_papers, errors, requests, attempt_log,
                 papers, fetch_meta, locals, ctx_data, hist, last_save>>

CleanupNext == CallRemoveLegacy \/ CallRemoveLegacyAgain

CleanupSpec == PlanInit /\ [][CleanupNext]_vars

(***************************************************************************)
(* Properties of remove_legacy_default_threads (checked under CleanupSpec).*)
(***************************************************************************)
\* the call was made on settings that have features
Cleaned ==
  /\ call.name = "remove_legacy_default_threads"
  /\ call.args.settings.features.islist

FeaturesBefore == call.args.settings.features.items
FeaturesAfter == call.result.settings.features.items

\* the features that have a thread list
WithThreads ==
  {i \in 1..Len(FeaturesBefore) :
     IsDict(FeaturesBefore[i]) /\ FeaturesBefore[i].threads.islist}

\* a mapping entry named by the legacy placeholder
IsPlaceholder(t) ==
  IsDict(t) /\ Strip(t.name) = <<"u9ed8", "u8ba4", "u5bf9", "u8bdd">>

\* the ids of the mapping entries of a thread list
IdsOf(threads) ==
  {Strip(threads[j].id) : j \in {k \in 1..Len(threads) : IsDict(threads[k])}}

\* the first mapping entry of a thread list that has an id
FirstWithId(threads) ==
  LET at == {j \in 1..Len(threads) : IsDict(threads[j]) /\ Strip(threads[j].id) # <<>>}
  IN threads[CHOOSE j \in at : \A k \in at : j <= k]

\* C27: every thread list loses exactly its mapping entries whose stripped
\* name is the placeholder; every other entry, the entries that are no
\* mappings included, stays, in its order; a feature without a thread list
\* is left as it was
C27_OnlyPlaceholdersRemoved ==
  Cleaned =>
    /\ Len(FeaturesAfter) = Len(FeaturesBefore)
    /\ \A i \in 1..Len(FeaturesBefore) :
         IF i \in WithThreads
         THEN /\ FeaturesAfter[i].threads.islist
              /\ FeaturesAfter[i].threads.items
                   = SelectSeq(FeaturesBefore[i].threads.items,
                               LAMBDA t : ~IsPlaceholder(t))
         ELSE FeaturesAfter[i] = FeaturesBefore[i]

\* a list of an entry that is no mapping, a placeholder with a padded name
\* and a real thread: the first and the last are left
C27_Witness ==
  /\ Cleaned
  /\ ~call.args.again
  /\ FeaturesBefore[1].threads.items = <<NonDict, ThreadLegacyPadded, ThreadReal>>
  /\ FeaturesAfter[1].threads.items = <<NonDict, ThreadReal>>

\* C28: for every feature with a thread list, active_thread_id (as the
\* program reads it, stripped, a missing key being empty) is left as stored
\* when it is the id of a kept thread; else it is the id of the first kept
\* mapping thread that has an id, and empty when no kept mapping thread has
\* one, in particular when no mapping thread remains; it is never the id
\* of a removed thread
C28_ActiveIdRepaired ==
  Cleaned =>
    \A i \in WithThreads :
      LET kept == FeaturesAfter[i].threads.items
          removed == SelectSeq(FeaturesBefore[i].threads.items, IsPlaceholder)
          was == Stored(FeaturesBefore[i].active_thread_id)
          now == Stored(FeaturesAfter[i].active_thread_id)
      IN /\ (was # <<>> /\ was \in IdsOf(kept))
              => FeaturesAfter[i].active_thread_id = FeaturesBefore[i].active_thread_id
         /\ (was = <<>> \/ was \notin IdsOf(kept))
              => IF IdsOf(kept) \ {<<>>} # {} THEN now = Strip(FirstWithId(kept).id)
                 ELSE now = <<>>
         /\ IdsOf(kept) = {} => now = <<>>
         /\ now \notin IdsOf(removed)

\* the active thread was a placeholder; the kept list starts with a thread
\* without id: the active id becomes the id of the thread after it
C28_Witness ==
  /\ Cleaned
  /\ ~call.args.again
  /\ FeaturesBefore[1].threads.items = <<ThreadLegacy, ThreadNoId, ThreadReal>>
  /\ FeaturesBefore[1].active_thread_id = ThreadLegacy.id
  /\ FeaturesAfter[1].active_thread_id = ThreadReal.id

\* nothing to clean: no placeholder in any thread list, every active id
\* the id of a thread of its list
NothingToClean ==
  \A i \in WithThreads :
    LET threads == FeaturesBefore[i].threads.items
        was == Stored(FeaturesBefore[i].active_thread_id)
    IN /\ \A j \in 1..Len(threads) : ~IsPlaceholder(threads[j])
       /\ was # <<>>
       /\ was \in IdsOf(threads)

\* C29: the call returns True exactly when it changed the settings; with
\* nothing to clean it returns False and leaves the settings as they were;
\* a second call right after a call returns False and changes nothing
C29_TrueIffChangedIdempotent ==
  call.name = "remove_legacy_default_threads" =>
    /\ call.result.changed = (call.result.settings # call.args.settings)
    /\ (Cleaned /\ NothingToClean) =>
         ~call.result.changed /\ call.result.settings = call.args.settings
    /\ call.args.again =>
         ~call.result.changed /\ call.result.settings = call.args.settings

\* the second call after a first call that removed a placeholder and
\* repaired the active id: False, nothing changed
C29_Witness ==
  /\ Cleaned
  /\ call.args.again
  /\ call.args.before.features.items[1].threads.items = <<ThreadLegacy, ThreadReal>>
  /\ call.args.before.features.items[1].active_thread_id = ThreadLegacy.id
  /\ FeaturesBefore[1].threads.items = <<ThreadReal>>
  /\ FeaturesBefore[1].active_thread_id = ThreadReal.id
  /\ ~call.result.changed
  /\ call.result.settings = call.args.settings

(***************************************************************************)
(* Properties of both rankers (checked under RankSpec).                    *)
(***************************************************************************)
RankerCalled == call.name \in {"_rank_semantic", "_rank_keyword_overlap"}

\* the list the ranker returned
Ranked == IF call.name = "_rank_semantic" THEN call.result.ranked ELSE call.result

\* the call had papers to rank and a query to rank them by: the keyword
\* ranker needs query terms, the semantic ranker query text and, where it
\* falls back to the keyword ranker, query terms as well
HadToRank ==
  /\ call.args.papers # <<>>
  /\ IF call.name = "_rank_keyword_overlap"
     THEN tokenize_for_overlap(call.args.query_text) # <<>>
     ELSE /\ Strip(call.args.query_text) # <<>>
          /\ \/ call.result.fine_backend = "sentence-transformers"
             \/ tokenize_for_overlap(Strip(call.args.query_text)) # <<>>

\* the papers handed in and the papers returned, without scores
BareIn == AsList([i \in 1..Len(call.args.papers) |-> Bare(call.args.papers[i])])
BareOut == AsList([j \in 1..Len(Ranked) |-> Bare(Ranked[j])])

\* how often paper x occurs in list
Occurrences(list, x) == Cardinality({i \in 1..Len(list) : list[i] = x})

\* the places of the returned list that hold score v, and the places of
\* the list handed in whose paper was returned with score v
PlacesOut(v) == SelectSeq(BareOut, LAMBDA x :
                  \E j \in 1..Len(Ranked) : BareOut[j] = x /\ Ranked[j].semantic_score = v)

PlacesIn(v) == SelectSeq(BareIn, LAMBDA x :
                 \E j \in 1..Len(Ranked) : BareOut[j] = x /\ Ranked[j].semantic_score = v)

RecencyRaises ==
  /\ pc = "recency"
  /\ Len(attempt_log') = Len(attempt_log) + 1
  /\ attempt_log'[Len(attempt_log')].merged = -1

\* the attempt at the current position is the last one with a query
LastAttempt == NextPos(plan.plans, plan_idx, timeout_idx).pi > Len(plan.plans)

\* C32: an attempt succeeds only if both of its sub-requests complete: a
\* fetch that returns papers of a live source returns the merge of the two
\* groups its last attempt received, after that attempt's relevance and
\* recency requests and with no error recorded for that attempt; when the recency sub-request raises after the relevance
\* sub-request returned, exactly one error tagged with the attempt's label
\* and timeout is recorded, the relevance papers are dropped, and the fetcher
\* is at the next attempt's relevance request (or, after the last attempt,
\* has returned no papers with source "none")
C32_BothSubRequestsOrFailure ==
  [][/\ RecencyRaises =>
          /\ Len(errors') = Len(errors) + 1
          /\ SubSeq(errors', 1, Len(errors)) = errors
          /\ errors'[Len(errors')].label = CurPlan.label
          /\ errors'[Len(errors')].kind = "exception"
          /\ errors'[Len(errors')].timeout = CurTimeout
          /\ relevance_papers' = <<>>
          /\ attempt_log'[Len(attempt_log')].label = CurPlan.label
          /\ attempt_log'[Len(attempt_log')].timeout = CurTimeout
          /\ IF LastAttempt
             THEN /\ pc' = "fetched"
                  /\ papers' = <<>>
                  /\ fetch_meta'.source = "none"
                  /\ fetch_meta'.errors = errors'
             ELSE /\ pc' = "relevance"
                  /\ PlaceOf([label |-> CurPlan'.label, timeout |-> CurTimeout'])
                       = PlaceOf([label |-> CurPlan.label, timeout |-> CurTimeout]) + 1
                  /\ papers' = papers
     /\ (pc' = "fetched" /\ fetch_meta'.source \in {"strict_2c2k", "fallback_1c1k"}) =>
          /\ pc = "recency"
          /\ call'.name = "_merge_unique_papers"
          /\ call'.args[1] = relevance_papers
          /\ papers' = call'.result
          /\ attempt_log'[Len(attempt_log')].merged = Len(papers')
          /\ errors' = errors
          /\ fetch_meta'.errors = errors
          /\ \A k \in 1..Len(errors) :
               errors[k].kind = "exception" =>
                 <<errors[k].label, errors[k].timeout>> # <<CurPlan.label, CurTimeout>>
          /\ Len(requests') >= 2
          /\ requests'[Len(requests') - 1].sort_by = "relevance"
          /\ requests'[Len(requests')].sort_by = "submittedDate"
          /\ AttemptOf(requests'[Len(requests') - 1]) = AttemptOf(requests'[Len(requests')])
    ]_vars

\* the relevance sub-request of the first attempt returned papers, its
\* recency sub-request raised, and the fetcher is at the second attempt
C32_Witness ==
  /\ call.name = "recency_raised"
  /\ call.args[1] # <<>>
  /\ Len(requests) = 2
  /\ Len(attempt_log) = 1
  /\ attempt_log[1].merged = -1
  /\ Len(errors) = 1
  /\ errors[1].kind = "exception"
  /\ errors[1].timeout = 20
  /\ pc = "relevance"
  /\ timeout_idx = 2
  /\ relevance_papers = <<>>

(***************************************************************************)
(* A fetch step without any papers (run, lines 72-80 and 116-140; checked  *)
(* under Spec).                                                            *)
(***************************************************************************)
\* the live fetch of the run came back empty and _load_cache gave nothing
NothingFetched ==
  /\ PastCache
  /\ hist.live = <<>>
  /\ hist.load_calls = 1
  /\ hist.loaded = <<>>

\* C33: when every live attempt has failed and the cache gives nothing (no
\* file, an unreadable one, an expired one or one without papers), the fetch
\* step returns through its last line and not through its except clause,
\* init_errors["arxiv_fetch"] stays unset, fetch_source is "none",
\* arxiv_total_fetched and arxiv_selected_count are 0, arxiv_selected_papers
\* is [], and arxiv_fetch_config.fetch_errors holds the five attempt errors
C33_TotalFailureLeavesNoInitError ==
  NothingFetched =>
    /\ pc # "caught"
    /\ Len(errors) = 5
    /\ fetch_meta.source = "none"
    /\ pc = "cached" => ~ ENABLED RankRaises
    /\ pc = "done" =>
         /\ "init_errors" \notin ctx_data.keys
         /\ ctx_data.init_errors.arxiv_fetch = NoEntry
         /\ ctx_data.arxiv_fetch_config.fetch_source = "none"
         /\ ctx_data.arxiv_total_fetched = 0
         /\ ctx_data.arxiv_selected_papers = <<>>
         /\ ctx_data.arxiv_selected_count = 0
         /\ ctx_data.arxiv_fetch_config.fetch_errors = errors
         /\ \A k \in 1..5 : <<errors[k].label, errors[k].kind>> \in
              {<<AttemptOrder[k][1], "exception">>, <<AttemptOrder[k][1], "empty">>}

\* the five attempts of a run failed and the cache file, saved more than 24
\* hours before, had expired: the step has published an empty selection
C33_Witness ==
  /\ pc = "done"
  /\ NothingFetched
  /\ hist.file_before.kind = "object"
  /\ hist.file_before.saved_at > 0
  /\ PapersIn(hist.file_before) # <<>>
  /\ hist.read_at - hist.file_before.saved_at > MAX_AGE_HOURS * 3600
  /\ Len(ctx_data.arxiv_fetch_config.fetch_errors) = 5
  /\ ctx_data.arxiv_selected_papers = <<>>

(***************************************************************************)
(* The fetch metadata a fetch step publishes (run, lines 72-80 and         *)
(* 116-134; _fetch_arxiv_resilient, lines 299-307; checked under Spec).    *)
(***************************************************************************)
\* C34: after a fetch step that ended at its last line, fetch_source is one
\* of "strict_2c2k", "fallback_1c1k", "cache", "none"; used_cache is true
\* exactly when fetch_source is "cache"; fetch_source is "none" exactly when
\* arxiv_total_fetched is 0; and with fetch_source "cache" or "none"
\* fetch_errors holds the errors of all five attempts, in attempt order
C34_FetchMetadataConsistent ==
  pc = "done" =>
    LET config == ctx_data.arxiv_fetch_config
    IN /\ config.fetch_source \in {"strict_2c2k", "fallback_1c1k", "cache", "none"}
       /\ config.fetch_source = fetch_meta.source
       /\ fetch_meta.used_cache <=> (config.fetch_source = "cache")
       /\ ("init_errors" \in ctx_data.keys) <=> (config.fetch_source = "cache")
       /\ (config.fetch_source = "none") <=> (ctx_data.arxiv_total_fetched = 0)
       /\ config.fetch_source \in {"cache", "none"} =>
            /\ Len(config.fetch_errors) = 5
            /\ \A k \in 1..5 : config.fetch_errors[k].label = AttemptOrder[k][1]
            /\ \A k \in 1..5 :
                 config.fetch_errors[k].kind = "exception" =>
                   config.fetch_errors[k].timeout = AttemptOrder[k][2]

\* a second run whose five attempts failed published the papers that the
\* first run had saved, with source "cache" and the five errors
C34_Witness ==
  /\ runs = 2
  /\ pc = "done"
  /\ last_save.ok
  /\ ctx_data.arxiv_fetch_config.fetch_source = "cache"
  /\ Len(ctx_data.arxiv_fetch_config.fetch_errors) = 5
  /\ ctx_data.arxiv_total_fetched = Len(last_save.papers)

(***************************************************************************)
(* The selection and its count (fetch step, lines 131-148; compare step,   *)
(* lines 70-82; checked under Spec).                                       *)
(***************************************************************************)
\* C38: from the end of the fetch step on, after each step of the run
\* (fetch, compare, organize; ended at the last line or in the except
\* clause), arxiv_selected_papers and arxiv_selected_count are both set and
\* arxiv_selected_count is the length of arxiv_selected_papers
C38_CountIsLengthOfSelection ==
  pc \in {"done", "caught", "compared", "organized"} =>
    /\ {"arxiv_selected_papers", "arxiv_selected_count"} \subseteq ctx_data.keys
    /\ ctx_data.arxiv_selected_count = Len(ctx_data.arxiv_selected_papers)

\* the comparison raised after a fetch step that had selected more papers
\* than the final count: the selection of the fetch step and its count stay
C38_Witness ==
  /\ pc = "compared"
  /\ call.name = "compare_arxiv_abstracts_with_input"
  /\ call.result.kind = "raise"
  /\ call.args.after = "done"
  /\ ctx_data.init_errors.arxiv_compare # NoEntry
  /\ Len(ctx_data.arxiv_selected_papers) > plan.target_count
  /\ ctx_data.arxiv_selected_count = Len(call.args.papers)

(***************************************************************************)
(* StepCompareArxivAbstracts.run on its own (lines 13-82): one call of it  *)
(* for any selection a fetch step can publish and any result of the        *)
(* comparison.                                                             *)
(***************************************************************************)
\* papers a fetch step can select: with an id, with a link only, and two
\* with the same id
ComparePapers == fetch_arxiv_by_query(<<EntryA, EntryB, EntryU, EntryN, EntryA2>>)

\* arxiv_selected_papers as the fetch step leaves it: at most MaxPool of
\* these papers, no two with the same identity key
CompareSelections ==
  {sel \in UNION {[1..n -> {ComparePapers[i] : i \in 1..Len(ComparePapers)}] : n \in 0..MaxPool} :
     \A i, j \in 1..Len(sel) : i # j => IdentityKey(sel[i]) # IdentityKey(sel[j])}

\* ids a result can name: of a paper, of two papers, unknown, blank
CompareIds == {<<"a">>, <<"b">>, <<"z">>, <<" ">>}

\* top_matches of a result, as the list of the ids of its items
TopMatchesInputs ==
  UNION {[1..n -> CompareIds] : n \in 0..2}
    \cup {<< <<"b">>, <<"z">>, <<" ">>, <<"b">>, <<"a">> >>}

\* selected_ids of a result
SelectedIdsInputs == {<<>>, << <<" ", "n">>, <<"n">>, <<"z">> >>}

\* final_output_paper_count (line 14)
FinalCounts == {1, 2}

\* what compare_arxiv_abstracts_with_input can do for a selection
CompareReplyInputs(selection) ==
  IF selection = <<>> THEN {NoCandidates}
  ELSE {[kind |-> "raise", error |-> "OpenAI API Key is empty",
         top_matches |-> <<>>, selected_ids |-> <<>>]}
       \cup {[kind |-> "ok", error |-> "", top_matches |-> AsList(t), selected_ids |-> s] :
               t \in TopMatchesInputs, s \in SelectedIdsInputs}

\* ctx.data as a fetch step that selected `selection` leaves it
DataWith(selection) ==
  [EmptyCtx EXCEPT !.keys = {"arxiv_fetch_config", "arxiv_total_fetched",
                             "arxiv_keyword_filtered", "arxiv_selected_count",
                             "arxiv_selected_papers"},
                   !.arxiv_total_fetched = Len(selection),
                   !.arxiv_selected_papers = selection,
                   !.arxiv_selected_count = Len(selection)]

CallCompareAbstracts ==
  /\ call = NoCall
  /\ \E selection \in CompareSelections, final_count \in FinalCounts :
     \E sel \in {AsList(selection)} :
     \E reply \in CompareReplyInputs(sel) :
       call' = [name |-> "StepCompareArxivAbstracts.run",
                args |-> [papers |-> sel, reply |-> reply, final_count |-> final_count],
                result |-> compare_abstracts(DataWith(sel), final_count, reply)]
  /\ UNCHANGED <<sessions, clock, cache_file, st_model_cache, runs, pc, net, plan,
                 plan_idx, timeout_idx, relevance_papers, errors, requests, attempt_log,
                 papers, fetch_meta, locals, ctx_data, hist, last_save>>

CompareNext == CallCompareAbstracts

CompareSpec == PlanInit /\ [][CompareNext]_vars

(***************************************************************************)
(* Properties of the list the compare step writes (checked under           *)
(* CompareSpec).                                                           *)
(***************************************************************************)
\* the ids the result names: those of top_matches, or, when top_matches
\* names none, those of selected_ids; blank ids left out, padding removed
NamedIds(reply) ==
  LET top == SelectSeq(reply.top_matches, LAMBDA x : Strip(x) # <<>>)
      sel == SelectSeq(reply.selected_ids, LAMBDA x : Strip(x) # <<>>)
      named == IF top # <<>> THEN top ELSE sel
  IN AsList([i \in 1..Len(named) |-> Strip(named[i])])

\* the named ids that are the id of a paper of the list, each at its first place
KnownNamedIds(reply, list) ==
  LET ids == NamedIds(reply)
      idx == AsList([i \in 1..Len(ids) |-> i])
      kept == SelectSeq(idx, LAMBDA i : /\ \E k \in 1..Len(list) : Strip(list[k].id) = ids[i]
                                        /\ \A j \in 1..(i - 1) : ids[j] # ids[i])
  IN AsList([k \in 1..Len(kept) |-> ids[kept[k]]])

\* C37: whatever the comparison returns or raises, arxiv_selected_papers
\* after the compare step is either the list the step found, untouched with
\* its count (when the comparison raised or no paper could be selected), or a
\* non-empty list of at most final_count papers of the list it found, no two
\* with the same id, that begins with the papers named by the result (ids
\* unknown, blank or repeated left out) in the order in which they are named
C37_WrittenSelectionIsSound ==
  call.name = "StepCompareArxivAbstracts.run" =>
    LET found == call.args.papers
        reply == call.args.reply
        final_count == call.args.final_count
        out == call.result.arxiv_selected_papers
        known == KnownNamedIds(reply, found)
        selectable == \E k \in 1..Len(found) : Strip(found[k].id) # <<>>
    IN /\ call.result.arxiv_selected_count = Len(out)
       /\ (reply.kind = "raise" \/ ~selectable) => out = found
       /\ (reply.kind = "ok" /\ selectable) =>
            /\ out # <<>>
            /\ Len(out) <= final_count
            /\ \A i \in 1..Len(out) : \E k \in 1..Len(found) : out[i] = found[k]
            /\ \A i, j \in 1..Len(out) : i # j => Strip(out[i].id) # Strip(out[j].id)
            /\ \A i \in 1..Len(out) : Strip(out[i].id) # <<>>
            /\ Len(out) >= Min2(Len(known), final_count)
            /\ \A i \in 1..Min2(Len(known), Len(out)) : Strip(out[i].id) = known[i]
       /\ found # <<>> => out # <<>>

\* the result names b, an unknown id, a blank id, b again and a: the step
\* writes the papers b and a, in this order, out of a selection that began
\* with a paper known by its link only
C37_Witness ==
  /\ call.name = "StepCompareArxivAbstracts.run"
  /\ call.args.reply.kind = "ok"
  /\ Len(call.args.reply.top_matches) = 5
  /\ call.args.final_count = 2
  /\ Len(call.args.papers) = 3
  /\ call.args.papers[1].id = <<>>
  /\ Len(call.result.arxiv_selected_papers) = 2
  /\ call.result.arxiv_selected_papers[1].id = <<"b">>
  /\ call.result.arxiv_selected_papers[2].id = <<"a">>

(***************************************************************************)
(* _load_cache on its own (lines 327-343): one call of it for any payload  *)
(* of the cache file, any time and any max_age_hours.                      *)
(***************************************************************************)
\* payload.get("saved_at", 0): the key is missing, or holds a number
NoSavedAt == [present |-> FALSE, val |-> 0]
SavedAtValue(n) == [present |-> TRUE, val |-> n]

\* float(payload.get("saved_at", 0) or 0)
SavedAtOf(raw) == IF raw.present THEN raw.val ELSE 0

\* saved_at in the file: missing, 0, a time 25 hours before the start, the
\* time of the start
SavedAtInputs ==
  {NoSavedAt, SavedAtValue(0), SavedAtValue(StartClock - 25 * 3600), SavedAtValue(StartClock)}

\* payload["papers"]
CachedListInputs == {<<>>, <<ForeignA>>, <<ForeignA, NonDict, ForeignA2>>}

\* time.time() when the file is read
NowInputs ==
  {StartClock, StartClock + MAX_AGE_HOURS * 3600, StartClock + MAX_AGE_HOURS * 3600 + 1,
   StartClock * 1000}

\* max_age_hours
MaxAgeInputs == {0, 1, MAX_AGE_HOURS, 1000}

CallLoadCache ==
  /\ call = NoCall
  /\ \E raw \in SavedAtInputs, list \in CachedListInputs, now \in NowInputs,
        max_age_hours \in MaxAgeInputs :
       call' = [name |-> "_load_cache",
                args |-> [saved_at |-> raw, papers |-> list, now |-> now,
                          max_age_hours |-> max_age_hours],
                result |-> load_cache(CacheObject(SavedAtOf(raw), list), now, max_age_hours)]
  /\ UNCHANGED <<sessions, clock, cache_file, st_model_cache, runs, pc, net, plan,
                 plan_idx, timeout_idx, relevance_papers, errors, requests, attempt_log,
                 papers, fetch_meta, locals, ctx_data, hist, last_save>>

LoadNext == CallLoadCache

LoadSpec == PlanInit /\ [][LoadNext]_vars

\* C35: a payload whose saved_at is missing or 0 is never expired:
\* _load_cache returns its papers (the entries of its list that are JSON
\* objects, in order) whatever the time and whatever max_age_hours, while a
\* payload saved at a time t > 0 is returned exactly when now - t is at most
\* max_age_hours * 3600
C35_UnstampedNeverExpires ==
  call.name = "_load_cache" =>
    LET a == call.args
        stored == SelectSeq(a.papers, IsDict)
    IN /\ (~a.saved_at.present \/ a.saved_at.val = 0) => call.result = stored
       /\ (a.saved_at.present /\ a.saved_at.val > 0) =>
            call.result = (IF a.now - a.saved_at.val > a.max_age_hours * 3600
                           THEN <<>> ELSE stored)

\* a payload without saved_at is read with max_age_hours 0 long after the
\* start: its two papers are returned, the entry that is no object is not
C35_Witness ==
  /\ call.name = "_load_cache"
  /\ ~call.args.saved_at.present
  /\ call.args.max_age_hours = 0
  /\ call.args.now > StartClock + MAX_AGE_HOURS * 3600 + 1
  /\ Len(call.args.papers) = 3
  /\ call.result = <<ForeignA, ForeignA2>>

(***************************************************************************)
(* A failed load into a full model cache (_rank_semantic, lines 375-395;   *)
(* checked under RankSpec).                                                *)
(***************************************************************************)
\* the call had to load a model the full cache did not hold, and
\* SentenceTransformer(selected_model) raised
FailedLoadIntoFullCache ==
  /\ call.name = "_rank_semantic"
  /\ call.args.papers # <<>>
  /\ Strip(call.args.query_text) # <<>>
  /\ call.args.outcome = "load_error"
  /\ Len(call.args.cache) >= ST_MODEL_CACHE_MAX_SIZE
  /\ \A i \in 1..Len(call.args.cache) :
       call.args.cache[i] # SelectedModel(call.args.model_name)

\* C36: the eviction comes before the load: when the cache holds 2 models
\* and the construction of a third one fails, the oldest entry is gone, the
\* other one stays, nothing is inserted (the cache holds 1 entry) and the
\* call returns the BM25 ranking with backend "bm25"
C36_EvictionBeforeFailedLoad ==
  FailedLoadIntoFullCache =>
    /\ Len(call.args.cache) = 2
    /\ call.result.cache = <<call.args.cache[2]>>
    /\ st_model_cache = call.result.cache
    /\ Len(st_model_cache) = 1
    /\ call.result.fine_backend = "bm25"
    /\ call.result.fine_model = ""
    /\ call.result.ranked
         = rank_keyword_overlap(call.args.papers, Strip(call.args.query_text))

\* two models were cached, the load of a third failed: one model is left
C36_Witness ==
  /\ FailedLoadIntoFullCache
  /\ call.args.cache[1] # call.args.cache[2]
  /\ st_model_cache = <<call.args.cache[2]>>
  /\ Len(call.result.ranked) > 1

(***************************************************************************)
(* The init timeout timer (main_window.py, lines 369-379 and 397; checked  *)
(* under AppSpec).                                                         *)
(***************************************************************************)
\* the step from the current state is the firing of the timer of session i
TimerFires(i) == sessions[i].timer = "armed" /\ sessions'[i].timer = "fired"

\* C40: the timer takes effect only while init_state is "running": when it
\* fires for a session whose init_state is "done" or "failed", init_state,
\* init_meta and the messages of the session are as before; when it fires
\* for a running session, init_state becomes "timeout" and one timeout
\* message is added; no step turns "done" or "failed" into "timeout", and no
\* other step adds a timeout message
C40_TimerActsOnlyWhileRunning ==
  [][\A i \in 1..Len(sessions) :
       /\ (TimerFires(i) /\ sessions[i].init_state \in {"done", "failed"}) =>
            /\ sessions'[i].init_state = sessions[i].init_state
            /\ sessions'[i].init_meta = sessions[i].init_meta
            /\ sessions'[i].timeout_messages = sessions[i].timeout_messages
       /\ (TimerFires(i) /\ sessions[i].init_state = "running") =>
            /\ sessions'[i].init_state = "timeout"
            /\ sessions'[i].timeout_messages = sessions[i].timeout_messages + 1
       /\ sessions[i].init_state \in {"done", "failed"} =>
            sessions'[i].init_state # "timeout"
       /\ sessions'[i].init_state = "timeout" =>
            sessions[i].init_state \in {"running", "timeout"}
       /\ sessions'[i].timeout_messages # sessions[i].timeout_messages =>
            TimerFires(i) /\ sessions[i].init_state = "running"]_vars

\* the timer of a session fired after its pipeline had finished and _on_ok
\* had stored the result: the session is "done", without a timeout message
C40_Witness ==
  \E i \in 1..Len(sessions) :
    /\ sessions[i].feature = "arxiv"
    /\ sessions[i].init_state = "done"
    /\ sessions[i].init_meta = "set"
    /\ sessions[i].timer = "fired"
    /\ sessions[i].timeout_messages = 0

(***************************************************************************)
(* InitPipelineWorker.run (lines 31-65; checked under AppLiveSpec).        *)
(***************************************************************************)
\* the sessions that have a worker
WithWorker == {i \in 1..Len(sessions) : sessions[i].thread # "none"}

\* what the worker of a session has done so far is in order
WorkerInOrder(s) ==
  /\ s.executed = [k \in 1..Len(s.executed) |-> k]
  /\ Len(s.executed) <= StepCount
  /\ Len(s.emitted) <= 1
  /\ (s.thread = "running") <=> (s.emitted = <<>>)
  /\ s.emitted = <<"finished">> <=>
       (s.thread = "quit" /\ s.raised = 0 /\ Len(s.executed) = StepCount)
  /\ s.emitted = <<"failed">> <=>
       (s.thread = "quit" /\ s.raised # 0 /\ s.raised = Len(s.executed))

\* C39: the worker executes the steps of build_steps in list order, each
\* once; after a step has raised it executes no further step and emits
\* nothing more; it emits finished exactly when all steps have returned and
\* failed exactly when a step has raised, never both; and when every step
\* terminates and the thread is scheduled, a worker that is running ends
\* with exactly one of the two signals emitted
C39_OneTerminalSignal ==
  /\ [](\A i \in WithWorker : WorkerInOrder(sessions[i]))
  /\ [][\A i \in WithWorker :
          sessions[i].emitted # <<>> =>
            /\ sessions'[i].executed = sessions[i].executed
            /\ sessions'[i].emitted = sessions[i].emitted
            /\ sessions'[i].raised = sessions[i].raised]_vars
  /\ \A i \in 1..MaxSessions :
       (i \in WithWorker /\ sessions[i].thread = "running")
         ~> (i \in WithWorker /\ sessions[i].thread = "quit"
                              /\ Len(sessions[i].emitted) = 1)

\* the third step of a worker raised: three steps were executed, failed was
\* emitted, and the thread has quit
C39_Witness ==
  \E i \in WithWorker :
    /\ sessions[i].executed = <<1, 2, 3>>
    /\ sessions[i].raised = 3
    /\ sessions[i].emitted = <<"failed">>
    /\ sessions[i].thread = "quit"

(***************************************************************************)
(* Pipeline runs inside _rank_semantic at the same time (lines 375-391).   *)
(* _st_model_cache is an attribute of the class StepFetchArxivPapers       *)
(* (line 26), shared by the workers of all sessions; a worker thread can   *)
(* be suspended between any two of the lines.  Here a session is the       *)
(* position of its worker inside the call: `at` is the line it is about to *)
(* run, selected_model the allow-listed model of its settings, oldest_key  *)
(* the key it took from the iterator.                                      *)
(***************************************************************************)
MaxWorkers == 3

\* the pipeline runs that are inside the call at the same time: the run a
\* timeout has given up on and the run of the session created after it
MaxConcurrent == 2

\* everything but the sessions and the model cache
RaceVars == <<clock, cache_file, runs, pc, net, plan, plan_idx, timeout_idx,
              relevance_papers, errors, requests, attempt_log, papers, fetch_meta,
              locals, ctx_data, hist, last_save, call>>

Cached(key) == \E k \in 1..Len(st_model_cache) : st_model_cache[k] = key

\* the worker of session i goes to line `at`
Goes(i, at) == sessions' = [sessions EXCEPT ![i].at = at]

\* the sessions whose worker is between line 379 and line 386
InFlight == {i \in 1..Len(sessions) : sessions[i].at \notin {"encode", "fallback"}}

\* the worker of a new session reaches the try block of line 375 with
\* papers, a query and the library at hand
EnterRankSemantic ==
  /\ Len(sessions) < MaxWorkers
  /\ Cardinality(InFlight) < MaxConcurrent
  /\ \E selected_model \in SENTENCE_TRANSFORMER_MODEL_OPTIONS :
       sessions' = Append(sessions, [at |-> "get", selected_model |-> selected_model,
                                     oldest_key |-> ""])
  /\ UNCHANGED <<st_model_cache, RaceVars>>

\* line 379: model = self._st_model_cache.get(selected_model)
CacheGet ==
  /\ \E i \in 1..Len(sessions) :
       /\ sessions[i].at = "get"
       /\ Goes(i, IF Cached(sessions[i].selected_model) THEN "encode" ELSE "len")
  /\ UNCHANGED <<st_model_cache, RaceVars>>

\* line 382: if len(self._st_model_cache) >= self._ST_MODEL_CACHE_MAX_SIZE
CacheLen ==
  /\ \E i \in 1..Len(sessions) :
       /\ sessions[i].at = "len"
       /\ Goes(i, IF Len(st_model_cache) >= ST_MODEL_CACHE_MAX_SIZE THEN "oldest" ELSE "load")
  /\ UNCHANGED <<st_model_cache, RaceVars>>

\* line 383: oldest_key = next(iter(self._st_model_cache)); StopIteration
\* on an empty cache is caught at line 392
CacheOldest ==
  /\ \E i \in 1..Len(sessions) :
       /\ sessions[i].at = "oldest"
       /\ sessions' = IF st_model_cache = <<>>
                      THEN [sessions EXCEPT ![i].at = "fallback"]
                      ELSE [sessions EXCEPT ![i].at = "del",
                                            ![i].oldest_key = Head(st_model_cache)]
  /\ UNCHANGED <<st_model_cache, RaceVars>>

\* line 384: del self._st_model_cache[oldest_key]; KeyError when another
\* worker has deleted the key is caught at line 392
CacheDel ==
  /\ \E i \in 1..Len(sessions) :
       /\ sessions[i].at = "del"
       /\ IF Cached(sessions[i].oldest_key)
          THEN /\ st_model_cache' =
                    SelectSeq(st_model_cache, LAMBDA key : key # sessions[i].oldest_key)
               /\ Goes(i, "load")
          ELSE /\ st_model_cache' = st_model_cache
               /\ Goes(i, "fallback")
  /\ UNCHANGED RaceVars

\* line 385: model = SentenceTransformer(selected_model), which returns or raises
LoadModel ==
  /\ \E i \in 1..Len(sessions) :
       /\ sessions[i].at = "load"
       /\ \E at \in {"insert", "fallback"} : Goes(i, at)
  /\ UNCHANGED <<st_model_cache, RaceVars>>

\* line 386: self._st_model_cache[selected_model] = model; a key that is
\* there keeps its place
CacheInsert ==
  /\ \E i \in 1..Len(sessions) :
       /\ sessions[i].at = "insert"
       /\ st_model_cache' = IF Cached(sessions[i].selected_model) THEN st_model_cache
                            ELSE Append(st_model_cache, sessions[i].selected_model)
       /\ Goes(i, "encode")
  /\ UNCHANGED RaceVars

RaceNext ==
  EnterRankSemantic \/ CacheGet \/ CacheLen \/ CacheOldest \/ CacheDel \/ LoadModel
    \/ CacheInsert

RaceSpec == PlanInit /\ [][RaceNext]_vars

\* C31: under every interleaving of the lookups, evictions, loads and
\* inserts of concurrent pipeline runs, the model cache holds at most
\* ST_MODEL_CACHE_MAX_SIZE (2) entries
C31_CacheWithinBound == Len(st_model_cache) <= ST_MODEL_CACHE_MAX_SIZE

=============================================================================
